---- MODULE Spec2Model ----
(***************************************************************************)
(* openpuppy: the turn-execution engine.                                   *)
(*   - ToolRegistry (src/tools/registry.py) with the composition tool      *)
(*     run_tool (src/tools/compose.py) and the custom-tool admin path      *)
(*     (src/tools/custom_tools.py);                                        *)
(*   - the agent graph supervisor -> router -> tool_executor (loop) ->     *)
(*     synthesizer -> END (src/agent/graph.py, nodes.py, supervisor.py,    *)
(*     executor.py).                                                       *)
(* The specifications of the module: SpecRegistry (registration and        *)
(* removal), SpecInvoke (one execute_tool call and what run_tool nests in  *)
(* it), SpecRun (one run of the graph), SpecRunFair (SpecRun with the      *)
(* event loop's fairness), SpecPass (the last tool_executor pass of a run  *)
(* with every mix of tool calls, up to the end of the run), SpecTurn (the  *)
(* start of a turn), SpecReport (execute_tool with monitoring up or down), *)
(* SpecMutate (execute_tool while the registry is changed by others),      *)
(* SpecDeps (several runs in one process) and SpecRate (the RateLimiter of *)
(* src/utils/rate_limit.py under several threads).                         *)
(***************************************************************************)
EXTENDS Integers, Sequences, FiniteSets, Bags, TLC

VARIABLES
    tool_registry,   \* the global ToolRegistry: [tools, custom_names]
    custom_file,     \* data/custom_tools.json: the persisted custom tool names
    builtins,        \* observation: names the register decorator made built-in
    last,            \* observation: the last registry operation and what it returned
    call,            \* the top-level execute_tool call being served
    stack,           \* the handlers in flight, outermost first, each inside the one before
    result,          \* what the top-level execute_tool call returned
    handler_log,     \* observation: the handlers started for the top-level call, in order
    returned,        \* observation: every execute_tool that returned for the top-level call
    metrics,         \* monitoring.TOOL_EXECUTIONS: a counter per (tool_name, status)
    pc,              \* the graph node that runs next ("END" and "error" are final)
    state,           \* the AgentState of the run
    response,        \* tool_executor_node: the LLMResponse whose tool calls are running
    results,         \* tool_executor_node: what asyncio.gather holds for each tool call
    abandoned,       \* worker threads still running for handlers a timeout cancelled
    stages,          \* observation: the nodes that ran, in order
    llm_log,         \* observation: the node of every llm.generate call, in order
    streamed,        \* stream_agent: the events it has yielded, in order
    messages_arg,    \* run_agent: the messages argument its caller passed
    safe,            \* the tool-free history a node built for its llm.generate call
    monitoring,      \* whether src.utils.monitoring can be imported and counts ("up"/"down")
    nodes_llm,       \* nodes._llm: the client set_dependencies stored last
    supervisor_llm,  \* supervisor._llm: the client set_supervisor_dependencies stored last
    runs,            \* per run of the process: the client it was created with, its next node
    generate_log,    \* observation: the llm.generate calls made, each as [run, node, llm]
    counts,          \* RateLimiter._counts: per key the timestamps of the allowed requests
    clock,           \* time.monotonic()
    lock,            \* RateLimiter._lock: the thread holding it, 0 for none
    threads,         \* per thread: the call it is in, its position in it, its `now`
    decisions        \* observation: what every finished allow and remaining returned

regVars == <<tool_registry, custom_file, builtins, last>>
invVars == <<call, stack, result, handler_log, returned, metrics>>
runVars == <<pc, state, response, results, abandoned, stages, llm_log, streamed>>
turnVars == <<messages_arg, safe>>
depVars == <<nodes_llm, supervisor_llm, runs, generate_log>>
rateVars == <<counts, clock, lock, threads, decisions>>
restVars == <<monitoring, depVars, rateVars, turnVars>>

----------------------------------------------------------------------------
(* Python dict with insertion order, as a sequence of <<key, value>> entries *)

DictKeys(d) == {d[i].key : i \in 1..Len(d)}

DictHas(d, k) == \E i \in 1..Len(d) : d[i].key = k

DictGet(d, k) == d[CHOOSE i \in 1..Len(d) : d[i].key = k].value

\* d[k] = v with every assignment appended as a new entry (a list, not a dict)
DictSetAppends(d, k, v) == Append(d, [key |-> k, value |-> v])

\* d[k] = v : an existing key keeps its position and takes the new value
DictSet(d, k, v) ==
    IF DictHas(d, k)
    THEN [i \in 1..Len(d) |-> IF d[i].key = k THEN [key |-> k, value |-> v] ELSE d[i]]
    ELSE Append(d, [key |-> k, value |-> v])

\* d.pop(k, None)
DictPop(d, k) == SelectSeq(d, LAMBDA e : e.key # k)

\* list(d.values())
DictValues(d) == [i \in 1..Len(d) |-> d[i].value]

\* s.get(k, default) on a small dict modelled as a function
Get(s, k, default) == IF k \in DOMAIN s THEN s[k] ELSE default

----------------------------------------------------------------------------
(* ToolRegistry *)

ToolNames == {"web_search", "my_tool"}

EmptyDict == [k \in {} |-> {}]

\* LLMResponse(content, tool_calls)
LLMResponse(content, tool_calls) == [content |-> content, tool_calls |-> tool_calls]

NoResponse == LLMResponse("", <<>>)

\* what a registration supplies besides the name
RegInputs == {
    [description |-> "d1", category |-> "search", handler |-> "leaf",
     parameters_schema |-> [properties |-> {"query"}, required |-> {"query"}]],
    [description |-> "d2", category |-> "meta", handler |-> "run_tool",
     parameters_schema |-> EmptyDict] }

HttpInput == [description |-> "Custom tool", category |-> "custom", handler |-> "http",
              parameters_schema |-> [properties |-> {}, required |-> {}]]

ToolDefinition(name, in) ==
    [name |-> name, description |-> in.description, category |-> in.category,
     handler |-> in.handler, parameters_schema |-> in.parameters_schema]

\* ToolRegistry.__init__
NewRegistry == [tools |-> <<>>, custom_names |-> {}]

NoOp == [op |-> "none", name |-> "", ret |-> FALSE]

\* ToolRegistry.register(name, ...)(fn): never refuses, overwrites
register(reg, name, in) ==
    [reg EXCEPT !.tools = DictSet(reg.tools, name, ToolDefinition(name, in))]

\* ToolRegistry.register_dynamic
register_dynamic(reg, name, in) ==
    [tools |-> DictSet(reg.tools, name, ToolDefinition(name, in)),
     custom_names |-> reg.custom_names \cup {name}]

\* unregister that forgets to drop the handler
unregister_keeps_handler(reg, name) ==
    IF name \notin reg.custom_names
    THEN [ret |-> FALSE, reg |-> reg]
    ELSE [ret |-> TRUE,
          reg |-> [reg EXCEPT !.custom_names = reg.custom_names \ {name}]]

\* unregister that forgets to drop the custom mark
unregister_keeps_custom_name(reg, name) ==
    IF name \notin reg.custom_names
    THEN [ret |-> FALSE, reg |-> reg]
    ELSE [ret |-> TRUE,
          reg |-> [reg EXCEPT !.tools = DictPop(reg.tools, name)]]

\* ToolRegistry.unregister: the returned flag and the registry afterwards
unregister(reg, name) ==
    IF name \notin reg.custom_names
    THEN [ret |-> FALSE, reg |-> reg]
    ELSE [ret |-> TRUE,
          reg |-> [tools |-> DictPop(reg.tools, name),
                   custom_names |-> reg.custom_names \ {name}]]

is_custom(reg, name) == name \in reg.custom_names

\* ToolRegistry.get_tool_schemas
get_tool_schemas(reg) ==
    LET defs == DictValues(reg.tools) IN
    [i \in 1..Len(defs) |->
        [type |-> "function",
         function |->
            [name |-> defs[i].name,
             description |-> defs[i].description,
             parameters |->
                [type |-> "object",
                 properties |-> Get(defs[i].parameters_schema, "properties", {}),
                 required |-> Get(defs[i].parameters_schema, "required", {})]]]]

SchemaNames(schemas) == {schemas[i].function.name : i \in 1..Len(schemas)}

\* supervisor.TEAM_TOOLS, a team's list as the set `in` tests it against
TEAM_TOOLS ==
    [research |-> {"web_search", "wikipedia_lookup", "weather", "retrieve_memory"},
     code |-> {"code_executor", "calculator", "read_file", "write_file",
               "list_directory", "retrieve_memory"},
     general |-> {}]

\* a filter that treats a team without a list as a team that may use nothing
get_tool_schemas_for_team_strict(reg, team) ==
    LET all_schemas == get_tool_schemas(reg)
        allowed == Get(TEAM_TOOLS, team, {})
    IN SelectSeq(all_schemas, LAMBDA s : s.function.name \in allowed)

\* supervisor.get_tool_schemas_for_team: TEAM_TOOLS.get(team) is None for a
\* team that is not a key, and `not allowed` holds for None and for []
get_tool_schemas_for_team(reg, team) ==
    LET all_schemas == get_tool_schemas(reg)
        allowed == Get(TEAM_TOOLS, team, {})
    IN IF allowed = {}
       THEN all_schemas
       ELSE SelectSeq(all_schemas, LAMBDA s : s.function.name \in allowed)

----------------------------------------------------------------------------
(* ToolRegistry.execute_tool and the composition tool run_tool *)

None == "None"

\* ToolResult(success, data, error, execution_time_ms); the duration is "0.0",
\* "elapsed" (measured by the caller) or "handler" (set by the handler)
ToolResult(success, data, error, ms) ==
    [success |-> success, data |-> data, error |-> error, execution_time_ms |-> ms]

NoResult == [success |-> FALSE, data |-> None, error |-> "no result yet",
             execution_time_ms |-> "none"]

NoCall == [name |-> "", arguments |-> <<>>, call_depth |-> 0, max_call_depth |-> 0]

\* no run of the graph is going on
RunIdle ==
    /\ pc = "idle"
    /\ state = EmptyDict
    /\ response = NoResponse
    /\ results = <<>>
    /\ abandoned = 0
    /\ stages = <<>>
    /\ llm_log = <<>>
    /\ streamed = <<>>

TurnIdle ==
    /\ messages_arg = <<>>
    /\ safe = <<>>

\* no agent created yet in this process
DepIdle ==
    /\ nodes_llm = "None"
    /\ supervisor_llm = "None"
    /\ runs = <<>>
    /\ generate_log = {}

\* no RateLimiter in use
RateIdle ==
    /\ counts = <<>>
    /\ clock = 0
    /\ lock = 0
    /\ threads = <<>>
    /\ decisions = <<>>

InvIdle ==
    /\ call = NoCall
    /\ stack = <<>>
    /\ result = NoResult
    /\ handler_log = <<>>
    /\ returned = <<>>
    /\ metrics = EmptyBag

\* the depth guard that lets one level too many through
DepthExceededOffByOne(call_depth, max_call_depth) == call_depth > max_call_depth + 1

\* registry.py: if _call_depth > _max_call_depth
DepthExceeded(call_depth, max_call_depth) == call_depth > max_call_depth

\* handler(**arguments) binds: run_tool needs tool_name and tool_arguments, the
\* http handler takes any keywords, a built-in leaf takes no nested request
ArgumentsBind(handler, arguments) ==
    CASE handler = "run_tool" -> Len(arguments) >= 1
      [] handler = "http" -> TRUE
      [] OTHER -> Len(arguments) = 0

\* the counter that labels every execution a success
record_tool_execution_always_success(m, tool_name, success) ==
    m (+) SetToBag({<<tool_name, "success">>})

\* monitoring.record_tool_execution
record_tool_execution(m, tool_name, success) ==
    m (+) SetToBag({<<tool_name, IF success THEN "success" ELSE "failure">>})

\* try: record_tool_execution(name, success) / except Exception: pass, as to
\* the counter: the import or the count raises when monitoring is down
Report(m, tool_name, success) ==
    IF monitoring = "up" THEN record_tool_execution(m, tool_name, success) ELSE m

\* a report without its try: the exception reaches the outer handler of
\* execute_tool, which returns it as the failure of the tool
ReturnAfterReportUnguarded(r, raised) ==
    IF raised
    THEN [success |-> FALSE, data |-> None,
          error |-> "No module named 'prometheus_client'",
          execution_time_ms |-> "elapsed"]
    ELSE r

\* try: record_tool_execution(...) / except Exception: pass / return result,
\* as to the result: the one computed before the report, raised or not
ReturnAfterReport(r, raised) == r

\* the unknown-tool branch that returns the message of the branch above it
UnknownToolFailureSaysDepth(name) ==
    [success |-> FALSE, data |-> None, error |-> "Max tool call depth exceeded",
     execution_time_ms |-> "0.0"]

\* registry.py: what execute_tool returns for a name that is not in self._tools
UnknownToolFailure(name) ==
    ToolResult(FALSE, None, "Unknown tool: " \o name, "0.0")

\* execute_tool up to the await: either it returns at once or the handler
\* starts; record says whether the returning branch reports to the metrics
ExecuteToolEntry(reg, name, arguments, call_depth, max_call_depth) ==
    IF DepthExceeded(call_depth, max_call_depth)
    THEN [kind |-> "return", record |-> FALSE,
          result |-> ToolResult(FALSE, None, "Max tool call depth exceeded", "0.0")]
    ELSE IF ~DictHas(reg.tools, name)
    THEN [kind |-> "return", record |-> FALSE, result |-> UnknownToolFailure(name)]
    ELSE IF ~ArgumentsBind(DictGet(reg.tools, name).handler, arguments)
    THEN [kind |-> "return", record |-> TRUE,
          result |-> ToolResult(FALSE, None, "TypeError", "elapsed")]
    ELSE [kind |-> "start", handler |-> DictGet(reg.tools, name).handler]

\* the metrics after execute_tool returned before its await
RecordEntry(m, name, e) ==
    IF e.record THEN Report(m, name, FALSE) ELSE m

\* execute_tool after the await: the handler returned r
ExecuteToolReturned(r) ==
    IF r.execution_time_ms = "0.0" THEN [r EXCEPT !.execution_time_ms = "elapsed"] ELSE r

\* execute_tool after the await: asyncio.TimeoutError
ExecuteToolTimedOut == ToolResult(FALSE, None, "Tool timed out after 30.0s", "elapsed")

\* execute_tool after the await: the handler raised Exception(msg)
ExecuteToolRaised(msg) == ToolResult(FALSE, None, msg, "elapsed")

\* what execute_tool returns for the way its handler ended
ExecuteToolOutcome(outcome) ==
    IF outcome.kind = "returned"
    THEN ExecuteToolReturned(outcome.result)
    ELSE ExecuteToolRaised(outcome.msg)

\* the depth run_tool passes to the nested execute_tool
run_tool_call_depth == 1
run_tool_max_call_depth == 2

\* execute_tool's defaults, as tool_executor_node calls it
default_call_depth == 0
default_max_call_depth == 2

\* a handler whose body has no await: once it runs, the event loop runs
\* nothing else (no other task, no timeout) until it has returned
Blocking(name) == name = "web_search"

Frame(name, handler, arguments, call_depth, max_call_depth) ==
    [name |-> name, handler |-> handler, arguments |-> arguments,
     call_depth |-> call_depth, max_call_depth |-> max_call_depth,
     state |-> "started", got |-> NoResult]

\* a wait that looks the handler up again in the registry when it resumes
HandlerOfLooksUp(reg, frame) ==
    IF DictHas(reg.tools, frame.name) THEN DictGet(reg.tools, frame.name).handler
    ELSE "gone"

\* the coroutine execute_tool awaits: the one self._tools[name].handler made
\* when the call started, whatever the registry holds by now
HandlerOf(reg, frame) == frame.handler

\* the execute_tool that started the innermost handler reports to the metrics
\* and returns r to its caller: the run_tool around it, or the top-level caller
Deliver(frames, r) ==
    LET out == ReturnAfterReport(r, monitoring = "down") IN
    /\ metrics' = Report(metrics, frames[Len(frames)].name, r.success)
    /\ returned' = Append(returned, [name |-> frames[Len(frames)].name, result |-> out])
    /\ IF Len(frames) = 1
       THEN /\ stack' = <<>>
            /\ result' = out
       ELSE /\ stack' = [SubSeq(frames, 1, Len(frames) - 1)
                           EXCEPT ![Len(frames) - 1].state = "got",
                                  ![Len(frames) - 1].got = out]
            /\ UNCHANGED result

\* a caller awaits tool_registry.execute_tool(name, arguments, depth, max);
\* one top-level call is followed from its start to its result
Invoke(chain, call_depth, max_call_depth) ==
    LET e == ExecuteToolEntry(tool_registry, Head(chain), Tail(chain),
                              call_depth, max_call_depth)
    IN  /\ call = NoCall
        /\ stack = <<>>
        /\ call' = [name |-> Head(chain), arguments |-> Tail(chain),
                    call_depth |-> call_depth, max_call_depth |-> max_call_depth]
        /\ IF e.kind = "return"
           THEN /\ result' = e.result
                /\ stack' = <<>>
                /\ handler_log' = <<>>
                /\ returned' = <<[name |-> Head(chain), result |-> e.result]>>
                /\ metrics' = RecordEntry(metrics, Head(chain), e)
           ELSE /\ result' = NoResult
                /\ stack' = <<Frame(Head(chain), e.handler, Tail(chain),
                                    call_depth, max_call_depth)>>
                /\ handler_log' = <<Head(chain)>>
                /\ UNCHANGED <<returned, metrics>>
        /\ UNCHANGED <<restVars, regVars, runVars>>

\* run_tool's body: await tool_registry.execute_tool(tool_name, tool_arguments,
\* _call_depth=1, _max_call_depth=2)
RunToolDispatch ==
    /\ stack # <<>>
    /\ LET top == stack[Len(stack)]
           e == ExecuteToolEntry(tool_registry, Head(top.arguments), Tail(top.arguments),
                                 run_tool_call_depth, run_tool_max_call_depth)
       IN  /\ HandlerOf(tool_registry, top) = "run_tool"
           /\ top.state = "started"
           /\ IF e.kind = "return"
              THEN /\ stack' = [stack EXCEPT ![Len(stack)].state = "got",
                                             ![Len(stack)].got = e.result]
                   /\ returned' = Append(returned, [name |-> Head(top.arguments),
                                                    result |-> e.result])
                   /\ metrics' = RecordEntry(metrics, Head(top.arguments), e)
                   /\ UNCHANGED handler_log
              ELSE /\ stack' = Append([stack EXCEPT ![Len(stack)].state = "awaiting"],
                                      Frame(Head(top.arguments), e.handler,
                                            Tail(top.arguments),
                                            run_tool_call_depth, run_tool_max_call_depth))
                   /\ handler_log' = Append(handler_log, Head(top.arguments))
                   /\ UNCHANGED <<returned, metrics>>
    /\ UNCHANGED <<restVars, regVars, runVars, call, result>>

\* run_tool returns the nested result with its own duration
RunToolReturn ==
    /\ stack # <<>>
    /\ LET top == stack[Len(stack)] IN
        /\ HandlerOf(tool_registry, top) = "run_tool"
        /\ top.state = "got"
        /\ Deliver(stack, ExecuteToolReturned(
                              [top.got EXCEPT !.execution_time_ms = "handler"]))
    /\ UNCHANGED <<restVars, regVars, runVars, call, handler_log>>

\* what a leaf handler can do: return a success, return its own failure, raise
LeafOutcomes == {
    [kind |-> "returned", result |-> ToolResult(TRUE, "payload", None, "0.0")],
    [kind |-> "returned", result |-> ToolResult(TRUE, None, None, "handler")],
    [kind |-> "returned", result |-> ToolResult(FALSE, None, "handler error", "0.0")],
    [kind |-> "returned", result |-> ToolResult(FALSE, None, "", "0.0")],
    [kind |-> "raised", msg |-> "boom"],
    [kind |-> "raised", msg |-> ""] }

\* a leaf handler (built-in or http) completes
HandlerComplete(outcome) ==
    /\ stack # <<>>
    /\ LET top == stack[Len(stack)] IN
        /\ HandlerOf(tool_registry, top) # "run_tool"
        /\ top.state = "started"
        /\ Deliver(stack, ExecuteToolOutcome(outcome))
    /\ UNCHANGED <<restVars, regVars, runVars, call, handler_log>>

\* the wait_for around the i-th handler in flight expires: everything nested
\* in it is cancelled and its execute_tool returns the timeout failure; no
\* timeout expires while a blocking handler holds the event loop
Timeout(i) ==
    /\ i \in 1..Len(stack)
    /\ ~Blocking(stack[Len(stack)].name)
    /\ Deliver(SubSeq(stack, 1, i), ExecuteToolTimedOut)
    /\ UNCHANGED <<restVars, regVars, runVars, call, handler_log>>

\* the registry as it stands after the tool modules were imported and one
\* custom tool was loaded
ImportedRegistry ==
    register_dynamic(
        register(
            register(NewRegistry, "web_search",
                     [description |-> "d1", category |-> "search", handler |-> "leaf",
                      parameters_schema |-> [properties |-> {"query"},
                                             required |-> {"query"}]]),
            "run_tool",
            [description |-> "d2", category |-> "meta", handler |-> "run_tool",
             parameters_schema |-> [properties |-> {"tool_name", "tool_arguments"},
                                    required |-> {"tool_name", "tool_arguments"}]]),
        "my_tool", HttpInput)

\* names a caller may ask for: two registered leaves, the composition tool,
\* and a name nobody registered
CallNames == {"web_search", "run_tool", "my_tool", "nope"}

MaxChain == 4
MaxCallDepth == 3

\* a request: the tool to run first, then what run_tool is asked to run, ...
RECURSIVE ChainsOfLen(_)
ChainsOfLen(n) ==
    IF n = 0 THEN {<<>>}
    ELSE {<<h>> \o t : h \in CallNames, t \in ChainsOfLen(n - 1)}

Chains == UNION {ChainsOfLen(n) : n \in 1..MaxChain}

InvInit ==
    /\ tool_registry = ImportedRegistry
    /\ custom_file = <<"my_tool">>
    /\ builtins = {"web_search", "run_tool"}
    /\ last = NoOp
    /\ InvIdle
    /\ monitoring = "up"
    /\ DepIdle
    /\ RateIdle
    /\ RunIdle
    /\ TurnIdle

\* as InvInit, in a process where monitoring may be down
ReportInit ==
    /\ tool_registry = ImportedRegistry
    /\ custom_file = <<"my_tool">>
    /\ builtins = {"web_search", "run_tool"}
    /\ last = NoOp
    /\ InvIdle
    /\ monitoring \in {"up", "down"}
    /\ DepIdle
    /\ RateIdle
    /\ RunIdle
    /\ TurnIdle

InvNext ==
    \/ /\ call = NoCall
       /\ \E c \in Chains, d \in 0..MaxCallDepth, m \in 0..MaxCallDepth : Invoke(c, d, m)
    \/ RunToolDispatch
    \/ RunToolReturn
    \/ \E o \in LeafOutcomes : HandlerComplete(o)
    \/ \E i \in 1..Len(stack) : Timeout(i)

----------------------------------------------------------------------------
(* registry operations as steps *)

\* name is present and was not added dynamically
IsBuiltin(reg, name) == DictHas(reg.tools, name) /\ ~is_custom(reg, name)

Register(name, in) ==
    /\ tool_registry' = register(tool_registry, name, in)
    /\ builtins' = IF is_custom(tool_registry, name) THEN builtins
                   ELSE builtins \cup {name}
    /\ last' = [op |-> "register", name |-> name, ret |-> TRUE]
    /\ UNCHANGED <<custom_file, invVars, runVars, restVars>>

RegisterDynamic(name, in) ==
    /\ tool_registry' = register_dynamic(tool_registry, name, in)
    /\ last' = [op |-> "register_dynamic", name |-> name, ret |-> TRUE]
    /\ UNCHANGED <<custom_file, builtins, invVars, runVars, restVars>>

Unregister(name) ==
    LET r == unregister(tool_registry, name) IN
    /\ tool_registry' = r.reg
    /\ last' = [op |-> "unregister", name |-> name, ret |-> r.ret]
    /\ UNCHANGED <<custom_file, builtins, invVars, runVars, restVars>>

\* custom_tools.add_custom_tool with an http definition that has a url:
\* refused only when the name is already in the JSON file
AddCustomTool(name) ==
    IF \E i \in 1..Len(custom_file) : custom_file[i] = name
    THEN /\ last' = [op |-> "add_custom_tool", name |-> name, ret |-> FALSE]
         /\ UNCHANGED <<tool_registry, custom_file, builtins, invVars, runVars, restVars>>
    ELSE /\ custom_file' = Append(custom_file, name)
         /\ tool_registry' = register_dynamic(tool_registry, name, HttpInput)
         /\ last' = [op |-> "add_custom_tool", name |-> name, ret |-> TRUE]
         /\ UNCHANGED <<builtins, invVars, runVars, restVars>>

\* custom_tools.remove_custom_tool, as called by DELETE /admin/tools/{name}
RemoveCustomTool(name) ==
    LET r == unregister(tool_registry, name) IN
    /\ tool_registry' = r.reg
    /\ custom_file' = SelectSeq(custom_file, LAMBDA n : n # name)
    /\ last' = [op |-> "remove_custom_tool", name |-> name, ret |-> r.ret]
    /\ UNCHANGED <<builtins, invVars, runVars, restVars>>

Teams == {"research", "code", "general", "banana"}

\* a tool_executor pass asking for the schemas of the run's team
TeamSchemas(team) ==
    /\ last' = [op |-> "get_tool_schemas_for_team", name |-> team,
                ret |-> get_tool_schemas_for_team(tool_registry, team)]
    /\ UNCHANGED <<tool_registry, custom_file, builtins, invVars, runVars, restVars>>

RegInit ==
    /\ tool_registry = NewRegistry
    /\ custom_file = <<>>
    /\ builtins = {}
    /\ last = NoOp
    /\ InvIdle
    /\ monitoring = "up"
    /\ DepIdle
    /\ RateIdle
    /\ RunIdle
    /\ TurnIdle

RegNext ==
    \/ \E n \in ToolNames, in \in RegInputs : Register(n, in)
    \/ \E n \in ToolNames, in \in RegInputs \cup {HttpInput} : RegisterDynamic(n, in)
    \/ \E n \in ToolNames : Unregister(n)
    \/ \E n \in ToolNames : AddCustomTool(n)
    \/ \E n \in ToolNames : RemoveCustomTool(n)
    \/ \E t \in Teams : TeamSchemas(t)

----------------------------------------------------------------------------
(* the agent graph: supervisor -> router -> tool_executor (loop) -> synthesizer *)

\* str.strip().lower() on the replies the model is taken to give
StripLower(text) ==
    CASE text = " Direct " -> "direct"
      [] text = "CODE" -> "code"
      [] OTHER -> text

\* str.strip()
Strip(text) ==
    CASE text = " The answer. " -> "The answer."
      [] text = " Checking. " -> "Checking."
      [] OTHER -> text

\* `x or default` on a string
Or(text, default) == IF text = "" THEN default ELSE text

UserInput == "What is the weather in Paris?"

UserMessage(text) == [role |-> "user", content |-> text]

\* a history the caller loaded from the conversation store and extended
PriorHistory ==
    <<UserMessage("hello"), [role |-> "assistant", content |-> "Hi!"],
      UserMessage(UserInput)>>

DefaultMaxIterations == 5

\* an initial state that always appends the user message to the given history
initial_state_appends(user_input, messages) ==
    [user_input |-> user_input,
     messages |-> messages \o <<UserMessage(user_input)>>,
     intent |-> "",
     tools_invoked |-> <<>>,
     iteration_count |-> 0,
     max_iterations |-> DefaultMaxIterations,
     final_response |-> "",
     metadata |-> [conversation_id |-> "default"]]

\* executor._initial_state
initial_state(user_input, messages) ==
    [user_input |-> user_input,
     messages |-> IF messages = <<>> THEN <<UserMessage(user_input)>> ELSE messages,
     intent |-> "",
     tools_invoked |-> <<>>,
     iteration_count |-> 0,
     max_iterations |-> DefaultMaxIterations,
     final_response |-> "",
     metadata |-> [conversation_id |-> "default"]]

\* `m.get("tool_calls")` as a condition: the key is there with a non-empty list
HasToolCalls(m) == "tool_calls" \in DOMAIN m /\ m.tool_calls # <<>>

RECURSIVE Join(_, _)
\* sep.join(parts)
Join(parts, sep) ==
    IF parts = <<>> THEN ""
    ELSE IF Len(parts) = 1 THEN parts[1]
    ELSE parts[1] \o sep \o Join(Tail(parts), sep)

RECURSIVE EndOfResults(_, _)
\* the inner loop's j: the first index from j on that is not a tool message
EndOfResults(messages, j) ==
    IF j <= Len(messages) /\ Get(messages[j], "role", "") = "tool"
    THEN EndOfResults(messages, j + 1)
    ELSE j

\* the inner loop's tool_results: the non-empty contents of messages[i+1..j-1]
ToolResultsAfter(messages, i) ==
    LET j == EndOfResults(messages, i + 1)
        contents == [k \in 1..(j - i - 1) |-> Or(Get(messages[i + k], "content", ""), "")]
    IN SelectSeq(contents, LAMBDA c : c # "")

\* the content of the assistant message the fold writes
MergedContent(m, tool_results) ==
    LET content == Strip(Or(Get(m, "content", ""), "")) IN
    IF tool_results # <<>>
    THEN IF content # ""
         THEN content \o "\n\n[Tool results]:\n" \o Join(tool_results, "\n")
         ELSE "[Tool results]:\n" \o Join(tool_results, "\n")
    ELSE Or(content, "(Used tools in this turn.)")

\* {k: v for k, v in m.items() if k in ("role", "content")}
RoleAndContent(m) == [k \in DOMAIN m \cap {"role", "content"} |-> m[k]]

RECURSIVE WithoutToolsKeepsCalls(_, _)
WithoutToolsKeepsCalls(messages, i) ==
    IF i > Len(messages) THEN <<>>
    ELSE LET m == messages[i]
             role == Get(m, "role", "")
         IN IF role = "tool" THEN WithoutToolsKeepsCalls(messages, i + 1)
            ELSE IF role = "assistant" /\ HasToolCalls(m)
            THEN <<[role |-> "assistant",
                    content |-> MergedContent(m, ToolResultsAfter(messages, i)),
                    tool_calls |-> m.tool_calls]>>
                 \o WithoutToolsKeepsCalls(messages, EndOfResults(messages, i + 1))
            ELSE <<RoleAndContent(m)>> \o WithoutToolsKeepsCalls(messages, i + 1)

\* a fold whose merged entry still carries the tool_calls
messages_for_llm_without_tools_keeps_calls(messages) ==
    WithoutToolsKeepsCalls(messages, 1)

RECURSIVE WithoutToolsAsTool(_, _)
WithoutToolsAsTool(messages, i) ==
    IF i > Len(messages) THEN <<>>
    ELSE LET m == messages[i]
             role == Get(m, "role", "")
         IN IF role = "tool" THEN WithoutToolsAsTool(messages, i + 1)
            ELSE IF role = "assistant" /\ HasToolCalls(m)
            THEN <<[role |-> "tool",
                    content |-> MergedContent(m, ToolResultsAfter(messages, i))]>>
                 \o WithoutToolsAsTool(messages, EndOfResults(messages, i + 1))
            ELSE <<RoleAndContent(m)>> \o WithoutToolsAsTool(messages, i + 1)

\* a fold that files the merged entry under the tool role
messages_for_llm_without_tools_as_tool(messages) ==
    WithoutToolsAsTool(messages, 1)

RECURSIVE WithoutToolsFirstResult(_, _)
WithoutToolsFirstResult(messages, i) ==
    IF i > Len(messages) THEN <<>>
    ELSE LET m == messages[i]
             role == Get(m, "role", "")
             tool_results == ToolResultsAfter(messages, i)
         IN IF role = "tool" THEN WithoutToolsFirstResult(messages, i + 1)
            ELSE IF role = "assistant" /\ HasToolCalls(m)
            THEN <<[role |-> "assistant",
                    content |-> MergedContent(m, IF tool_results = <<>> THEN <<>>
                                                  ELSE <<Head(tool_results)>>)]>>
                 \o WithoutToolsFirstResult(messages, EndOfResults(messages, i + 1))
            ELSE <<RoleAndContent(m)>> \o WithoutToolsFirstResult(messages, i + 1)

\* a fold that keeps only the first tool result of an assistant entry
messages_for_llm_without_tools_first_result(messages) ==
    WithoutToolsFirstResult(messages, 1)

RECURSIVE WithoutTools(_, _)
\* the while loop of nodes._messages_for_llm_without_tools from index i on
WithoutTools(messages, i) ==
    IF i > Len(messages) THEN <<>>
    ELSE LET m == messages[i]
             role == Get(m, "role", "")
         IN IF role = "tool" THEN WithoutTools(messages, i + 1)
            ELSE IF role = "assistant" /\ HasToolCalls(m)
            THEN <<[role |-> "assistant",
                    content |-> MergedContent(m, ToolResultsAfter(messages, i))]>>
                 \o WithoutTools(messages, EndOfResults(messages, i + 1))
            ELSE <<RoleAndContent(m)>> \o WithoutTools(messages, i + 1)

\* nodes._messages_for_llm_without_tools
messages_for_llm_without_tools(messages) == WithoutTools(messages, 1)

\* a reducer that puts the new messages in front of the old ones
append_messages_prepends(left, right) == right \o left

\* a messages channel without its reducer: the update replaces the list
append_messages_overwrites(left, right) == right

\* state._append_messages with a list on the right
append_messages(left, right) == left \o right

\* how the graph folds a node's returned dict into the state: the messages
\* channel uses its reducer, every other key is overwritten
ApplyUpdate(st, update) ==
    [k \in DOMAIN st \cup DOMAIN update |->
        IF k \notin DOMAIN update THEN st[k]
        ELSE IF k = "messages" /\ k \in DOMAIN st
             THEN append_messages(st[k], update[k])
             ELSE update[k]]

\* a supervisor that takes over whatever the model answered
supervisor_node_keeps_output(st, reply) ==
    [team |-> StripLower(Or(reply.content, "general"))]

\* supervisor.supervisor_node, given the model's reply
supervisor_node(st, reply) ==
    LET team == StripLower(Or(reply.content, "general")) IN
    [team |-> IF team \in {"research", "code", "general"} THEN team ELSE "general"]

\* a router whose fallback is to answer without tools
router_node_defaults_direct(st, reply) ==
    LET intent == StripLower(Or(reply.content, "direct")) IN
    [intent |-> IF intent \in {"direct", "tool_use", "clarification"}
                THEN intent ELSE "direct"]

\* nodes.router_node, given the model's reply
router_node(st, reply) ==
    LET intent == StripLower(Or(reply.content, "tool_use")) IN
    [intent |-> IF intent \in {"direct", "tool_use", "clarification"}
                THEN intent ELSE "tool_use"]

\* a router edge that sends every intent to the tools
route_after_router_always_tools(st) == "tool_executor"

\* graph.route_after_router
route_after_router(st) ==
    IF Get(st, "intent", "tool_use") = "tool_use" THEN "tool_executor" ELSE "synthesizer"

\* the loop edge that never leaves the tool executor
route_after_tool_executor_loops(st) == "tool_executor"

\* graph.route_after_tool_executor
route_after_tool_executor(st) ==
    IF Get(st, "intent", "") = "synthesize" THEN "synthesizer" ELSE "tool_executor"

\* the step-limit test that lets the pass at iteration = max_iterations through
LimitReachedOffByOne(st) ==
    Get(st, "iteration_count", 0) > Get(st, "max_iterations", DefaultMaxIterations)

\* nodes.tool_executor_node: if iteration >= max_iter
LimitReached(st) ==
    Get(st, "iteration_count", 0) >= Get(st, "max_iterations", DefaultMaxIterations)

StepLimitText == "I've hit the step limit. Here's what I have so far."

\* a step-limit branch that still counts the pass
tool_executor_limit_counts(st) ==
    [intent |-> "synthesize", final_response |-> StepLimitText,
     iteration_count |-> Get(st, "iteration_count", 0) + 1]

\* a step-limit branch that leaves final_response alone
tool_executor_limit_no_text(st) == [intent |-> "synthesize"]

\* nodes.tool_executor_node: what it returns when the step limit is reached
tool_executor_limit(st) ==
    [intent |-> "synthesize", final_response |-> StepLimitText]

\* a pass without tool calls that still counts as an iteration
tool_executor_no_calls_counts(st) ==
    [intent |-> "synthesize", iteration_count |-> Get(st, "iteration_count", 0) + 1]

\* nodes.tool_executor_node: what it returns when the model asks for no tool
tool_executor_no_calls(st) == [intent |-> "synthesize"]

\* json.dumps of a tool call's arguments
JsonDumps(arguments) == <<"json", arguments>>

\* a tool message that leaves the error out
ToolMessageContentDropsError(res) ==
    IF res.success /\ res.data # None THEN res.data ELSE "Tool failed."

\* the text of the tool message for one result
ToolMessageContent(res) ==
    IF res.success /\ res.data # None
    THEN res.data
    ELSE IF res.error # None /\ res.error # "" THEN "Error: " \o res.error
         ELSE "Tool failed."

\* a pass that counts every tool call instead of itself
tool_executor_collect_counts_calls(st, reply, res) ==
    LET calls == reply.tool_calls
        assistant_msg ==
            [role |-> "assistant", content |-> reply.content,
             tool_calls |-> [i \in 1..Len(calls) |->
                [id |-> calls[i].id, type |-> "function",
                 function |-> [name |-> calls[i].name,
                               arguments |-> JsonDumps(calls[i].arguments)]]]]
        tool_msgs == [i \in 1..Len(calls) |->
                        [role |-> "tool", tool_call_id |-> calls[i].id,
                         content |-> ToolMessageContent(res[i])]]
        dumps == [i \in 1..Len(calls) |->
                    [success |-> res[i].success, data |-> res[i].data,
                     error |-> res[i].error,
                     execution_time_ms |-> res[i].execution_time_ms,
                     tool_name |-> calls[i].name]]
    IN  [messages |-> <<assistant_msg>> \o tool_msgs,
         tools_invoked |-> Get(st, "tools_invoked", <<>>) \o dumps,
         iteration_count |-> Get(st, "iteration_count", 0) + Len(calls)]

\* nodes.tool_executor_node: what it returns after the tool calls were gathered
tool_executor_collect(st, reply, res) ==
    LET calls == reply.tool_calls
        assistant_msg ==
            [role |-> "assistant", content |-> reply.content,
             tool_calls |-> [i \in 1..Len(calls) |->
                [id |-> calls[i].id, type |-> "function",
                 function |-> [name |-> calls[i].name,
                               arguments |-> JsonDumps(calls[i].arguments)]]]]
        tool_msgs == [i \in 1..Len(calls) |->
                        [role |-> "tool", tool_call_id |-> calls[i].id,
                         content |-> ToolMessageContent(res[i])]]
        dumps == [i \in 1..Len(calls) |->
                    [success |-> res[i].success, data |-> res[i].data,
                     error |-> res[i].error,
                     execution_time_ms |-> res[i].execution_time_ms,
                     tool_name |-> calls[i].name]]
    IN  [messages |-> <<assistant_msg>> \o tool_msgs,
         tools_invoked |-> Get(st, "tools_invoked", <<>>) \o dumps,
         iteration_count |-> Get(st, "iteration_count", 0) + 1]

\* a synthesizer that also marks the run as answered in the intent
synthesizer_node_sets_intent(st, reply) ==
    [final_response |-> Strip(reply.content), intent |-> "done"]

\* nodes.synthesizer_node, given the model's reply
synthesizer_node(st, reply) == [final_response |-> Strip(reply.content)]

----------------------------------------------------------------------------
(* the replies the model is taken to give *)

ToolCall(id, name, arguments) == [id |-> id, name |-> name, arguments |-> arguments]

SupervisorReplies ==
    {LLMResponse(c, <<>>) : c \in {"research", "CODE", "general", "banana", ""}}

RouterReplies ==
    {LLMResponse(c, <<>>) :
        c \in {"direct", " Direct ", "tool_use", "clarification", "banana", ""}}

\* with tools attached: no call, two calls that both fail (an unregistered
\* name, arguments that do not bind), or two calls of registered tools
ToolReplies == {
    LLMResponse("It is sunny.", <<>>),
    LLMResponse("", <<ToolCall(1, "nope", <<>>), ToolCall(2, "web_search", <<"x">>)>>),
    LLMResponse("Let me check.",
                <<ToolCall(1, "web_search", <<>>), ToolCall(2, "my_tool", <<>>)>>) }

SynthesizerReplies ==
    {LLMResponse(c, <<>>) : c \in {" The answer. ", "The answer.", ""}}

\* what the handler of a tool called from the run does when it completes:
\* web_search returns its hits, the http tool a body without data or the
\* failure it caught
RunOutcomes(name) ==
    IF name = "web_search"
    THEN {[kind |-> "returned",
           result |-> ToolResult(TRUE, "search results", None, "handler")]}
    ELSE {[kind |-> "returned", result |-> ToolResult(TRUE, None, None, "0.0")],
          [kind |-> "returned", result |-> ToolResult(FALSE, None, "boom", "0.0")]}

AllRunOutcomes == UNION {RunOutcomes(n) : n \in CallNames}

----------------------------------------------------------------------------
(* the nodes as steps of one run *)

\* one tool call handed to asyncio.gather, its task not yet run
Pending == [status |-> "pending", result |-> NoResult, late |-> FALSE,
            handler |-> FALSE, seq |-> 0]

\* the tool call returned r as the next one of its pass to finish; late says
\* its handler was still running when the timeout had elapsed, handler that
\* its handler was called
Done(rs, r, late, handler) ==
    [status |-> "done", result |-> r, late |-> late, handler |-> handler,
     seq |-> Cardinality({j \in 1..Len(rs) : rs[j].status = "done"}) + 1]

AnyPending(rs) == \E i \in 1..Len(rs) : rs[i].status = "pending"

\* the event loop runs the tasks gather created in the order of the tool calls
NextToStart(rs) ==
    CHOOSE i \in 1..Len(rs) :
        rs[i].status = "pending" /\ \A j \in 1..(i - 1) : rs[j].status # "pending"

\* results handed over in the order the calls finished
gather_as_completed(rs) ==
    [k \in 1..Len(rs) |-> rs[CHOOSE i \in 1..Len(rs) : rs[i].seq = k].result]

\* asyncio.gather: the results in the order of the awaitables
gather(rs) == [i \in 1..Len(rs) |-> rs[i].result]

\* an event that carries the update without the node's name
EventWithoutNode(node, update) == [node |-> "", update |-> update]

\* what agent.astream hands stream_agent after a node has returned, and
\* stream_agent yields as it is: the node's name with the update it returned
Event(node, update) == [node |-> node, update |-> update]

Supervisor(reply) ==
    /\ pc = "supervisor"
    /\ state' = ApplyUpdate(state, supervisor_node(state, reply))
    /\ pc' = "router"
    /\ stages' = Append(stages, "supervisor")
    /\ llm_log' = Append(llm_log, "supervisor")
    /\ streamed' = Append(streamed, Event("supervisor", supervisor_node(state, reply)))
    /\ UNCHANGED <<restVars, regVars, invVars, response, results, abandoned>>

Router(reply) ==
    /\ pc = "router"
    /\ state' = ApplyUpdate(state, router_node(state, reply))
    /\ pc' = route_after_router(state')
    /\ stages' = Append(stages, "router")
    /\ llm_log' = Append(llm_log, "router")
    /\ streamed' = Append(streamed, Event("router", router_node(state, reply)))
    /\ UNCHANGED <<restVars, regVars, invVars, response, results, abandoned>>

\* tool_executor_node entered with the step limit reached
ToolExecutorLimit ==
    /\ pc = "tool_executor"
    /\ LimitReached(state)
    /\ state' = ApplyUpdate(state, tool_executor_limit(state))
    /\ pc' = route_after_tool_executor(state')
    /\ stages' = Append(stages, "tool_executor")
    /\ streamed' = Append(streamed, Event("tool_executor", tool_executor_limit(state)))
    /\ UNCHANGED <<restVars, regVars, invVars, response, results, abandoned, llm_log>>

\* tool_executor_node up to the await of asyncio.gather: the model is called
\* with the tool schemas; without tool calls the node returns, otherwise
\* gather makes one task per call
ToolExecutorDispatch(reply) ==
    /\ pc = "tool_executor"
    /\ ~LimitReached(state)
    /\ stages' = Append(stages, "tool_executor")
    /\ llm_log' = Append(llm_log, "tool_executor")
    /\ IF reply.tool_calls = <<>>
       THEN /\ state' = ApplyUpdate(state, tool_executor_no_calls(state))
            /\ pc' = route_after_tool_executor(state')
            /\ streamed' = Append(streamed,
                                  Event("tool_executor", tool_executor_no_calls(state)))
            /\ UNCHANGED <<response, results>>
       ELSE /\ response' = reply
            /\ results' = [i \in 1..Len(reply.tool_calls) |-> Pending]
            /\ pc' = "gather"
            /\ UNCHANGED <<state, streamed>>
    /\ UNCHANGED <<restVars, regVars, invVars, abandoned>>

\* the task of the next tool call runs execute_tool up to the point where it
\* either has returned (depth, unknown name, arguments that do not bind) or
\* waits for a handler that has suspended
ToolStart ==
    /\ pc = "gather"
    /\ AnyPending(results)
    /\ LET i == NextToStart(results)
           tc == response.tool_calls[i]
           e == ExecuteToolEntry(tool_registry, tc.name, tc.arguments,
                                 default_call_depth, default_max_call_depth)
       IN  IF e.kind = "return"
           THEN /\ results' = [results EXCEPT ![i] = Done(results, e.result, FALSE, FALSE)]
                /\ metrics' = RecordEntry(metrics, tc.name, e)
           ELSE /\ ~Blocking(tc.name)
                /\ results' = [results EXCEPT ![i].status = "awaiting",
                                              ![i].handler = TRUE]
                /\ UNCHANGED metrics
    /\ UNCHANGED <<streamed, restVars, regVars, call, stack, result, handler_log, returned,
                   pc, state, response, abandoned, stages, llm_log>>

\* the task of the next tool call runs a handler without an await: the handler
\* keeps the event loop until it returns, however long it takes, and
\* wait_for hands its result on
ToolRunBlocking(outcome, late) ==
    /\ pc = "gather"
    /\ AnyPending(results)
    /\ LET i == NextToStart(results)
           tc == response.tool_calls[i]
           e == ExecuteToolEntry(tool_registry, tc.name, tc.arguments,
                                 default_call_depth, default_max_call_depth)
           r == ExecuteToolOutcome(outcome)
       IN  /\ e.kind = "start"
           /\ Blocking(tc.name)
           /\ results' = [results EXCEPT ![i] = Done(results, r, late, TRUE)]
           /\ metrics' = Report(metrics, tc.name, r.success)
    /\ UNCHANGED <<streamed, restVars, regVars, call, stack, result, handler_log, returned,
                   pc, state, response, abandoned, stages, llm_log>>

\* the suspended handler of the i-th tool call completes in time; the loop
\* gets to it only after every task of the pass had its first turn
ToolComplete(i, outcome) ==
    /\ pc = "gather"
    /\ i \in 1..Len(results)
    /\ ~AnyPending(results)
    /\ results[i].status = "awaiting"
    /\ LET r == ExecuteToolOutcome(outcome) IN
        /\ results' = [results EXCEPT ![i] = Done(results, r, FALSE, TRUE)]
        /\ metrics' = Report(metrics, response.tool_calls[i].name,
                                            r.success)
    /\ UNCHANGED <<streamed, restVars, regVars, call, stack, result, handler_log, returned,
                   pc, state, response, abandoned, stages, llm_log>>

\* the wait_for of the i-th tool call expires: its handler is cancelled, the
\* worker thread it waited for runs on
ToolTimeout(i) ==
    /\ pc = "gather"
    /\ i \in 1..Len(results)
    /\ ~AnyPending(results)
    /\ results[i].status = "awaiting"
    /\ results' = [results EXCEPT ![i] = Done(results, ExecuteToolTimedOut, TRUE, TRUE)]
    /\ metrics' = Report(metrics, response.tool_calls[i].name, FALSE)
    /\ abandoned' = abandoned + 1
    /\ UNCHANGED <<streamed, restVars, regVars, call, stack, result, handler_log, returned,
                   pc, state, response, stages, llm_log>>

\* the request of a cancelled handler completes in its worker thread: nobody
\* awaits it any more
AbandonedFinish ==
    /\ abandoned > 0
    /\ abandoned' = abandoned - 1
    /\ UNCHANGED <<streamed, restVars, regVars, invVars, pc, state, response, results, stages, llm_log>>

\* asyncio.gather returns: tool_executor_node builds its update and returns
ToolExecutorCollect ==
    /\ pc = "gather"
    /\ \A i \in 1..Len(results) : results[i].status = "done"
    /\ state' = ApplyUpdate(state,
                    tool_executor_collect(state, response, gather(results)))
    /\ pc' = route_after_tool_executor(state')
    /\ response' = NoResponse
    /\ results' = <<>>
    /\ streamed' = Append(streamed,
                          Event("tool_executor",
                                tool_executor_collect(state, response, gather(results))))
    /\ UNCHANGED <<restVars, regVars, invVars, abandoned, stages, llm_log>>

Synthesizer(reply) ==
    /\ pc = "synthesizer"
    /\ state' = ApplyUpdate(state, synthesizer_node(state, reply))
    /\ pc' = "END"
    /\ stages' = Append(stages, "synthesizer")
    /\ llm_log' = Append(llm_log, "synthesizer")
    /\ streamed' = Append(streamed, Event("synthesizer", synthesizer_node(state, reply)))
    /\ UNCHANGED <<restVars, regVars, invVars, response, results, abandoned>>

\* an llm.generate that raised is taken for an empty reply and the run goes on
LLMFailureSwallowed ==
    /\ pc \in {"supervisor", "router", "tool_executor", "synthesizer"}
    /\ pc = "tool_executor" => ~LimitReached(state)
    /\ pc' = IF pc = "supervisor" THEN "router" ELSE "synthesizer"
    /\ stages' = Append(stages, pc)
    /\ llm_log' = Append(llm_log, pc)
    /\ UNCHANGED <<streamed, restVars, regVars, invVars, state, response, results, abandoned>>

\* llm.generate raises in the node that runs next: nothing catches it and the
\* run ends with the exception
LLMFailure ==
    /\ pc \in {"supervisor", "router", "tool_executor", "synthesizer"}
    /\ pc = "tool_executor" => ~LimitReached(state)
    /\ pc' = "error"
    /\ stages' = Append(stages, pc)
    /\ llm_log' = Append(llm_log, pc)
    /\ UNCHANGED <<streamed, restVars, regVars, invVars, state, response, results, abandoned>>

RunInit ==
    /\ tool_registry = ImportedRegistry
    /\ custom_file = <<"my_tool">>
    /\ builtins = {"web_search", "run_tool"}
    /\ last = NoOp
    /\ InvIdle
    /\ monitoring = "up"
    /\ DepIdle
    /\ RateIdle
    /\ pc \in {"supervisor", "router"}
    /\ messages_arg \in {<<>>, PriorHistory}
    /\ state = initial_state(UserInput, messages_arg)
    /\ safe = <<>>
    /\ response = NoResponse
    /\ results = <<>>
    /\ abandoned = 0
    /\ stages = <<>>
    /\ llm_log = <<>>
    /\ streamed = <<>>

RunNext ==
    \/ \E r \in SupervisorReplies : Supervisor(r)
    \/ \E r \in RouterReplies : Router(r)
    \/ ToolExecutorLimit
    \/ \E r \in ToolReplies : ToolExecutorDispatch(r)
    \/ ToolStart
    \/ /\ pc = "gather"
       /\ AnyPending(results)
       /\ \E o \in RunOutcomes(response.tool_calls[NextToStart(results)].name),
             late \in BOOLEAN : ToolRunBlocking(o, late)
    \/ \E i \in 1..Len(results) :
          \E o \in RunOutcomes(response.tool_calls[i].name) : ToolComplete(i, o)
    \/ \E i \in 1..Len(results) : ToolTimeout(i)
    \/ ToolExecutorCollect
    \/ \E r \in SynthesizerReplies : Synthesizer(r)
    \/ LLMFailure

----------------------------------------------------------------------------
(* one pass of tool_executor_node in full: the last pass the step limit
   allows, with every mix of requests, and the end of the run after it *)

MaxCalls == 3

\* the id the model gives the i-th tool call of a reply
CallId(i) == 100 - i

\* what the model may ask for: a search, a search with arguments that do not
\* bind, the custom http tool, a tool nobody registered
PassRequests == {
    [name |-> "web_search", arguments |-> <<>>],
    [name |-> "web_search", arguments |-> <<"x">>],
    [name |-> "my_tool", arguments |-> <<>>],
    [name |-> "nope", arguments |-> <<>>] }

PassReplies ==
    {LLMResponse("", [i \in 1..Len(f) |->
                         ToolCall(CallId(i), f[i].name, f[i].arguments)]) :
        f \in UNION {[1..m -> PassRequests] : m \in 0..MaxCalls}}

\* what the handler of a tool does when it completes: web_search returns its
\* hits or the failure it caught, the http tool a body, a body without data,
\* or the failure it caught
PassOutcomes(name) ==
    IF name = "web_search"
    THEN {[kind |-> "returned",
           result |-> ToolResult(TRUE, "search results", None, "handler")],
          [kind |-> "returned",
           result |-> ToolResult(FALSE, None, "ddg failed", "handler")]}
    ELSE {[kind |-> "returned", result |-> ToolResult(TRUE, "custom data", None, "0.0")],
          [kind |-> "returned", result |-> ToolResult(TRUE, None, None, "0.0")],
          [kind |-> "returned", result |-> ToolResult(FALSE, None, "boom", "0.0")]}

\* the reply of the earlier passes: one call of a tool nobody registered
NopeReply == LLMResponse("", <<ToolCall(CallId(1), "nope", <<>>)>>)

\* the state of a run after supervisor, router and n passes of tool_executor
RECURSIVE AfterPasses(_)
AfterPasses(n) ==
    IF n = 0
    THEN LET s0 == initial_state(UserInput, <<>>)
             s1 == ApplyUpdate(s0, supervisor_node(s0, LLMResponse("general", <<>>)))
         IN  ApplyUpdate(s1, router_node(s1, LLMResponse("tool_use", <<>>)))
    ELSE LET st == AfterPasses(n - 1)
         IN  ApplyUpdate(st, tool_executor_collect(st, NopeReply,
                                                   <<UnknownToolFailure("nope")>>))

\* the events yielded up to that state
RECURSIVE StreamedAfterPasses(_)
StreamedAfterPasses(n) ==
    IF n = 0
    THEN LET s0 == initial_state(UserInput, <<>>)
         IN <<Event("supervisor", supervisor_node(s0, LLMResponse("general", <<>>))),
              Event("router", router_node(s0, LLMResponse("tool_use", <<>>)))>>
    ELSE Append(StreamedAfterPasses(n - 1),
                Event("tool_executor",
                      tool_executor_collect(AfterPasses(n - 1), NopeReply,
                                            <<UnknownToolFailure("nope")>>)))

PassInit ==
    /\ tool_registry = ImportedRegistry
    /\ custom_file = <<"my_tool">>
    /\ builtins = {"web_search", "run_tool"}
    /\ last = NoOp
    /\ InvIdle
    /\ monitoring = "up"
    /\ DepIdle
    /\ RateIdle
    /\ pc = "tool_executor"
    /\ state = AfterPasses(DefaultMaxIterations - 1)
    /\ TurnIdle
    /\ response = NoResponse
    /\ results = <<>>
    /\ abandoned = 0
    /\ stages = <<"supervisor", "router">>
                    \o [i \in 1..(DefaultMaxIterations - 1) |-> "tool_executor"]
    /\ llm_log = stages
    /\ streamed = StreamedAfterPasses(DefaultMaxIterations - 1)

PassNext ==
    \/ ToolExecutorLimit
    \/ \E r \in PassReplies : ToolExecutorDispatch(r)
    \/ ToolStart
    \/ /\ pc = "gather"
       /\ AnyPending(results)
       /\ \E o \in PassOutcomes(response.tool_calls[NextToStart(results)].name),
             late \in BOOLEAN : ToolRunBlocking(o, late)
    \/ \E i \in 1..Len(results) :
          \E o \in PassOutcomes(response.tool_calls[i].name) : ToolComplete(i, o)
    \/ \E i \in 1..Len(results) : ToolTimeout(i)
    \/ AbandonedFinish
    \/ ToolExecutorCollect
    \/ \E r \in SynthesizerReplies : Synthesizer(r)
    \/ LLMFailure

----------------------------------------------------------------------------
(* the start of a turn: run_agent builds the state, a node builds its
   tool-free history *)

MaxHistory == 4

ToolCallEntry == [id |-> "call_1", type |-> "function",
                  function |-> [name |-> "web_search", arguments |-> JsonDumps(<<"x">>)]]

\* the entries a history handed to run_agent is made of
HistoryEntries == {
    UserMessage("hello"),
    [role |-> "assistant", content |-> "Hi!"],
    [role |-> "assistant", content |-> "Hi!", tool_calls |-> <<>>],
    [role |-> "assistant", content |-> " Checking. ", tool_calls |-> <<ToolCallEntry>>],
    [role |-> "assistant", content |-> "", tool_calls |-> <<ToolCallEntry>>],
    [role |-> "tool", tool_call_id |-> "call_1", content |-> "It is sunny."],
    [role |-> "tool", tool_call_id |-> "call_1", content |-> ""],
    [role |-> "tool", tool_call_id |-> "call_2", content |-> "12 C"] }

Histories == UNION {[1..n -> HistoryEntries] : n \in 0..MaxHistory}

\* executor.run_agent up to the start of the graph
RunAgent ==
    /\ pc = "idle"
    /\ state' = initial_state(UserInput, messages_arg)
    /\ pc' = "supervisor"
    /\ UNCHANGED <<regVars, invVars, response, results, abandoned, stages, llm_log,
                   streamed, restVars>>

\* a node builds the history for its llm.generate call, as synthesizer_node does
BuildSafe ==
    /\ pc = "supervisor"
    /\ safe' = messages_for_llm_without_tools(state.messages)
    /\ pc' = "safe"
    /\ UNCHANGED <<regVars, invVars, state, response, results, abandoned, stages,
                   llm_log, streamed, monitoring, depVars, rateVars, messages_arg>>

\* the history built is put through _messages_for_llm_without_tools again
BuildSafeAgain ==
    /\ pc = "safe"
    /\ safe' = messages_for_llm_without_tools(safe)
    /\ pc' = "safe_again"
    /\ UNCHANGED <<regVars, invVars, state, response, results, abandoned, stages,
                   llm_log, streamed, monitoring, depVars, rateVars, messages_arg>>

TurnInit ==
    /\ tool_registry = ImportedRegistry
    /\ custom_file = <<"my_tool">>
    /\ builtins = {"web_search", "run_tool"}
    /\ last = NoOp
    /\ InvIdle
    /\ monitoring = "up"
    /\ DepIdle
    /\ RateIdle
    /\ RunIdle
    /\ messages_arg \in Histories
    /\ safe = <<>>

TurnNext ==
    \/ RunAgent
    \/ BuildSafe
    \/ BuildSafeAgain

----------------------------------------------------------------------------
(* several runs in one process: create_agent stores the model client in the
   module globals nodes._llm and supervisor._llm, and every node reads the
   global when it starts *)

\* the model clients the callers hand to create_agent
Clients == {"llm_a", "llm_b"}

\* the most runs of one process, and the most tool_executor passes of a run
MaxRuns == 2
MaxPasses == 2

\* the run's record with its next node
AtNode(run, node) == [run EXCEPT !.pc = node]

\* nodes._get_llm: the client the nodes module holds now
get_llm == nodes_llm

\* executor.create_agent followed by the caller's ainvoke / astream, which
\* runs up to the first await of the entry node
CreateAgent(llm, use_supervisor) ==
    /\ Len(runs) < MaxRuns
    /\ nodes_llm' = llm
    /\ supervisor_llm' = llm
    /\ runs' = Append(runs, [llm |-> llm, passes |-> 0,
                             pc |-> IF use_supervisor THEN "supervisor" ELSE "router"])
    /\ UNCHANGED <<generate_log, regVars, invVars, runVars, turnVars, monitoring, rateVars>>

\* supervisor.supervisor_node of run r: the call of _llm.generate
RunSupervisor(r) ==
    /\ runs[r].pc = "supervisor"
    /\ supervisor_llm # "None"
    /\ generate_log' = generate_log \cup
           {[run |-> r, node |-> "supervisor", llm |-> supervisor_llm]}
    /\ runs' = [runs EXCEPT ![r] = AtNode(@, "router")]
    /\ UNCHANGED <<nodes_llm, supervisor_llm, regVars, invVars, runVars, turnVars, monitoring, rateVars>>

\* nodes.router_node of run r, and the edge route_after_router takes
RunRouter(r, intent) ==
    /\ runs[r].pc = "router"
    /\ generate_log' = generate_log \cup
           {[run |-> r, node |-> "router", llm |-> get_llm]}
    /\ runs' = [runs EXCEPT ![r] =
                   AtNode(@, route_after_router([intent |-> intent]))]
    /\ UNCHANGED <<nodes_llm, supervisor_llm, regVars, invVars, runVars, turnVars, monitoring, rateVars>>

\* nodes.tool_executor_node of run r: at the step limit no model call is
\* made; otherwise one is, and the pass ends with or without tool calls
RunToolExecutor(r, has_calls) ==
    /\ runs[r].pc = "tool_executor"
    /\ IF runs[r].passes >= MaxPasses
       THEN /\ ~has_calls
            /\ generate_log' = generate_log
            /\ runs' = [runs EXCEPT ![r] = AtNode(@, "synthesizer")]
       ELSE /\ generate_log' = generate_log \cup
                   {[run |-> r, node |-> "tool_executor", llm |-> get_llm]}
            /\ runs' = [runs EXCEPT ![r] =
                   [AtNode(@, route_after_tool_executor(
                        IF has_calls THEN EmptyDict
                        ELSE [intent |-> "synthesize"]))
                    EXCEPT !.passes = @ + 1]]
    /\ UNCHANGED <<nodes_llm, supervisor_llm, regVars, invVars, runVars, turnVars, monitoring, rateVars>>

\* nodes.synthesizer_node of run r
RunSynthesizer(r) ==
    /\ runs[r].pc = "synthesizer"
    /\ generate_log' = generate_log \cup
           {[run |-> r, node |-> "synthesizer", llm |-> get_llm]}
    /\ runs' = [runs EXCEPT ![r] = AtNode(@, "end")]
    /\ UNCHANGED <<nodes_llm, supervisor_llm, regVars, invVars, runVars, turnVars, monitoring, rateVars>>

DepsInit ==
    /\ tool_registry = ImportedRegistry
    /\ custom_file = <<"my_tool">>
    /\ builtins = {"web_search", "run_tool"}
    /\ last = NoOp
    /\ InvIdle
    /\ monitoring = "up"
    /\ DepIdle
    /\ RateIdle
    /\ RunIdle
    /\ TurnIdle

DepsNext ==
    \/ \E llm \in Clients, use_supervisor \in BOOLEAN : CreateAgent(llm, use_supervisor)
    \/ \E r \in 1..Len(runs) : RunSupervisor(r)
    \/ \E r \in 1..Len(runs), intent \in {"tool_use", "direct"} : RunRouter(r, intent)
    \/ \E r \in 1..Len(runs), has_calls \in BOOLEAN : RunToolExecutor(r, has_calls)
    \/ \E r \in 1..Len(runs) : RunSynthesizer(r)

----------------------------------------------------------------------------
(* RateLimiter (src/utils/rate_limit.py): allow and remaining called from
   several threads; a thread may be preempted between any two statements *)

\* RateLimiter(max_requests, window_seconds) as the limiter is built here
max_requests == 2
window_seconds == 2

\* the threads calling the limiter, the keys they ask about, the last tick of
\* time.monotonic() and the most calls made
NumThreads == 2
MaxClock == 2
MaxDecisions == 4

Keys == {"chat_1", "chat_2"}

Ops == {"allow", "remaining"}

NoThread == [op |-> "none", key |-> "", at |-> "idle", now |-> 0, full |-> FALSE]

\* a lock that lets every thread in
LockIsFreeAlways(l) == TRUE

\* threading.Lock: free when no thread holds it
LockIsFree(l) == l = 0

\* RateLimiter._prune, the list it leaves for the key
prune(timestamps, now) ==
    LET cutoff == now - window_seconds IN
    SelectSeq(timestamps, LAMBDA t : t > cutoff)

\* max(0, x)
Max0(x) == IF x > 0 THEN x ELSE 0

\* the clock goes on
Tick ==
    /\ clock < MaxClock
    /\ clock' = clock + 1
    /\ UNCHANGED <<counts, lock, threads, decisions>>
    /\ UNCHANGED <<regVars, invVars, runVars, turnVars, monitoring, depVars>>

\* thread t calls allow(key) or remaining(key) and enters `with self._lock`
Acquire(t, op, key) ==
    /\ threads[t].at = "idle"
    /\ Len(decisions) + Cardinality({u \in DOMAIN threads : threads[u].at # "idle"})
          < MaxDecisions
    /\ LockIsFree(lock)
    /\ lock' = t
    /\ threads' = [threads EXCEPT ![t] = [NoThread EXCEPT !.op = op, !.key = key,
                                                          !.at = "now"]]
    /\ UNCHANGED <<counts, clock, decisions>>
    /\ UNCHANGED <<regVars, invVars, runVars, turnVars, monitoring, depVars>>

\* now = time.monotonic(); self._prune(key, now); the test of the length
PruneAndTest(t) ==
    /\ threads[t].at = "now"
    /\ LET kept == prune(counts[threads[t].key], clock) IN
         /\ counts' = [counts EXCEPT ![threads[t].key] = kept]
         /\ threads' = [threads EXCEPT ![t].at = "return", ![t].now = clock,
                                       ![t].full = (Len(kept) >= max_requests)]
    /\ UNCHANGED <<clock, lock, decisions>>
    /\ UNCHANGED <<regVars, invVars, runVars, turnVars, monitoring, depVars>>

\* the rest of allow: return False, or append now and return True; the
\* lock is released on the way out
AllowReturn(t) ==
    /\ threads[t].at = "return"
    /\ threads[t].op = "allow"
    /\ counts' = IF threads[t].full THEN counts
                 ELSE [counts EXCEPT ![threads[t].key] = Append(@, threads[t].now)]
    /\ decisions' = Append(decisions, [op |-> "allow", key |-> threads[t].key,
                                       now |-> threads[t].now, ret |-> ~threads[t].full])
    /\ lock' = 0
    /\ threads' = [threads EXCEPT ![t] = NoThread]
    /\ UNCHANGED clock
    /\ UNCHANGED <<regVars, invVars, runVars, turnVars, monitoring, depVars>>

\* the rest of remaining: return max(0, max_requests - len(...))
RemainingReturn(t) ==
    /\ threads[t].at = "return"
    /\ threads[t].op = "remaining"
    /\ decisions' = Append(decisions, [op |-> "remaining", key |-> threads[t].key,
                                       now |-> threads[t].now,
                                       ret |-> Max0(max_requests - Len(counts[threads[t].key]))])
    /\ lock' = 0
    /\ threads' = [threads EXCEPT ![t] = NoThread]
    /\ UNCHANGED <<counts, clock>>
    /\ UNCHANGED <<regVars, invVars, runVars, turnVars, monitoring, depVars>>

RateInit ==
    /\ tool_registry = ImportedRegistry
    /\ custom_file = <<"my_tool">>
    /\ builtins = {"web_search", "run_tool"}
    /\ last = NoOp
    /\ InvIdle
    /\ monitoring = "up"
    /\ DepIdle
    /\ RunIdle
    /\ TurnIdle
    /\ counts = [k \in Keys |-> <<>>]
    /\ clock = 0
    /\ lock = 0
    /\ threads = [t \in 1..NumThreads |-> NoThread]
    /\ decisions = <<>>

RateNext ==
    \/ Tick
    \/ \E t \in 1..NumThreads, op \in Ops, key \in Keys : Acquire(t, op, key)
    \/ \E t \in 1..NumThreads : PruneAndTest(t)
    \/ \E t \in 1..NumThreads : AllowReturn(t)
    \/ \E t \in 1..NumThreads : RemainingReturn(t)

\* the calls that reach my_tool, directly or through run_tool
MutateChains == {c \in Chains : \E i \in 1..Len(c) : c[i] = "my_tool"}

\* what my_tool is registered with anew: an http tool as before, or a tool
\* with another handler
MutateInputs == {HttpInput} \cup {in \in RegInputs : in.handler = "leaf"}

\* one call as tool_executor_node makes it, while another task of the event
\* loop (the admin API) removes the custom tool or registers it anew
MutateNext ==
    \/ /\ call = NoCall
       /\ \E c \in MutateChains : Invoke(c, default_call_depth, default_max_call_depth)
    \/ RunToolDispatch
    \/ RunToolReturn
    \/ \E o \in LeafOutcomes : HandlerComplete(o)
    \/ \E i \in 1..Len(stack) : Timeout(i)
    \/ Unregister("my_tool")
    \/ \E in \in MutateInputs : RegisterDynamic("my_tool", in)

vars == <<tool_registry, custom_file, builtins, last, call, stack, result, handler_log,
          returned, metrics, pc, state, response, results, abandoned, stages,
          llm_log, streamed, messages_arg, safe, monitoring, nodes_llm,
          supervisor_llm, runs, generate_log, counts, clock, lock, threads, decisions>>

SpecRegistry == RegInit /\ [][RegNext]_vars

SpecInvoke == InvInit /\ [][InvNext]_vars

SpecReport == ReportInit /\ [][InvNext]_vars

SpecMutate == InvInit /\ [][MutateNext]_vars

SpecRun == RunInit /\ [][RunNext]_vars

\* the event loop runs whatever is ready: a node whose turn it is, a model
\* call or a tool call that returns
SpecRunFair == RunInit /\ [][RunNext]_vars /\ WF_vars(RunNext)

SpecPass == PassInit /\ [][PassNext]_vars

SpecTurn == TurnInit /\ [][TurnNext]_vars

SpecDeps == DepsInit /\ [][DepsNext]_vars

SpecRate == RateInit /\ [][RateNext]_vars

----------------------------------------------------------------------------
(* claims about the registry, checked under SpecRegistry *)

RegistrationOf(n) ==
    \/ \E in \in RegInputs : Register(n, in)
    \/ \E in \in RegInputs \cup {HttpInput} : RegisterDynamic(n, in)
    \/ AddCustomTool(n)

\* C7: after any sequence of register, dynamic register and unregister
\* operations every name registered as a built-in is still present, is not
\* reported as custom, and an unregister of it has returned false.
C7_BuiltinsArePermanent ==
    \A n \in builtins :
        /\ DictHas(tool_registry.tools, n)
        /\ ~is_custom(tool_registry, n)
        /\ (last.op \in {"unregister", "remove_custom_tool"} /\ last.name = n
                => last.ret = FALSE)

\* C8: a registration of a name present with built-in provenance fails and
\* leaves the registry unchanged; a registration of a name present with
\* dynamic provenance replaces its definition.
C8_RegisterOnBuiltinFails ==
    [][\A n \in ToolNames :
        /\ (IsBuiltin(tool_registry, n) /\ RegistrationOf(n))
              => (last'.ret = FALSE /\ tool_registry' = tool_registry)
        /\ \A in \in RegInputs \cup {HttpInput} :
              (is_custom(tool_registry, n) /\ RegisterDynamic(n, in))
                 => DictGet(tool_registry'.tools, n) = ToolDefinition(n, in)
      ]_vars

UnregisterOf(n) == Unregister(n) \/ RemoveCustomTool(n)

\* C9: unregister(name) returns true exactly when a removal occurred: only
\* for a dynamically-added name that was present before and is absent from
\* the handler table and from the schemas after; when it returns false the
\* registry is unchanged; a second unregister of the same name returns false.
C9_UnregisterReportsRemoval ==
    [][\A n \in ToolNames : UnregisterOf(n) =>
        LET before == tool_registry
            after == tool_registry'
        IN  /\ last'.ret = TRUE =>
                 /\ is_custom(before, n)
                 /\ DictHas(before.tools, n)
                 /\ ~DictHas(after.tools, n)
                 /\ n \notin SchemaNames(get_tool_schemas(after))
                 /\ ~is_custom(after, n)
                 /\ \A m \in ToolNames \ {n} :
                       /\ DictHas(after.tools, m) = DictHas(before.tools, m)
                       /\ is_custom(after, m) = is_custom(before, m)
                       /\ DictHas(before.tools, m) =>
                             DictGet(after.tools, m) = DictGet(before.tools, m)
            /\ last'.ret = FALSE =>
                 /\ after = before
                 /\ ~is_custom(before, n)
            /\ (last.op \in {"unregister", "remove_custom_tool"} /\ last.name = n)
                 => last'.ret = FALSE
      ]_vars

\* an unregister returned true and the other tool is still registered
C9_Witness ==
    /\ last.op = "unregister"
    /\ last.ret = TRUE
    /\ ~DictHas(tool_registry.tools, last.name)
    /\ Len(tool_registry.tools) = 1

\* C10: schemas() holds exactly one description per currently registered
\* name: every registered name appears once, no unregistered name appears.
C10_SchemasOnePerRegisteredName ==
    LET s == get_tool_schemas(tool_registry) IN
    /\ SchemaNames(s) = DictKeys(tool_registry.tools)
    /\ Len(s) = Cardinality(DictKeys(tool_registry.tools))
    /\ \A i, j \in 1..Len(s) : s[i].function.name = s[j].function.name => i = j
    /\ (last.op \in {"unregister", "remove_custom_tool"} /\ last.ret = TRUE)
          => last.name \notin SchemaNames(s)

\* both names registered, the last one by a dynamic registration over a name
\* that was already there as a built-in
C10_Witness ==
    /\ Len(tool_registry.tools) = 2
    /\ last.op = "register_dynamic"
    /\ last.name \in builtins
    /\ Len(get_tool_schemas(tool_registry)) = 2

\* C25: the schemas handed out for a team are exactly the registry's schemas
\* whose name is in the team's list, in the registry's order, when the team
\* has a non-empty list, and all the registry's schemas when the team is
\* general or has no list; every schema handed out is one of the registry's
\* and the registry is left as it was.
C25_TeamSchemasAreAllowedOnes ==
    [][\A t \in Teams : TeamSchemas(t) =>
        LET all_schemas == get_tool_schemas(tool_registry)
            out == last'.ret
            allow == CASE t = "research" ->
                            {"web_search", "wikipedia_lookup", "weather",
                             "retrieve_memory"}
                       [] t = "code" ->
                            {"code_executor", "calculator", "read_file",
                             "write_file", "list_directory", "retrieve_memory"}
                       [] OTHER -> {}
        IN  /\ allow # {} =>
                 out = SelectSeq(all_schemas, LAMBDA s : s.function.name \in allow)
            /\ allow = {} => out = all_schemas
            /\ \A i \in 1..Len(out) : \E j \in 1..Len(all_schemas) : out[i] = all_schemas[j]
            /\ tool_registry' = tool_registry
            /\ get_tool_schemas(tool_registry') = all_schemas
      ]_vars

\* the research team asked with two tools registered, one of them on its list
C25_Witness ==
    /\ last.op = "get_tool_schemas_for_team"
    /\ last.name = "research"
    /\ Len(tool_registry.tools) = 2
    /\ SchemaNames(last.ret) = {"web_search"}

\* C40: after any sequence of register, register_dynamic and unregister
\* operations every name recorded as custom is a key of the handler table and
\* has a schema: is_custom(name) implies the name is registered.
C40_CustomNamesAreRegistered ==
    \A n \in ToolNames :
        is_custom(tool_registry, n) =>
            /\ DictHas(tool_registry.tools, n)
            /\ n \in SchemaNames(get_tool_schemas(tool_registry))

\* one custom name was removed while the other is still custom and registered
C40_Witness ==
    /\ last.op \in {"unregister", "remove_custom_tool"}
    /\ last.ret = TRUE
    /\ Cardinality(tool_registry.custom_names) = 1
    /\ \A n \in tool_registry.custom_names : DictHas(tool_registry.tools, n)

----------------------------------------------------------------------------
(* claims about execute_tool, checked under SpecInvoke *)

DepthExceededFailure == ToolResult(FALSE, None, "Max tool call depth exceeded", "0.0")

\* C5: every invoke with call_depth > max_depth returns the depth-exceeded
\* failure and never starts the handler of the named capability; no handler
\* in flight was started by an invoke whose depth exceeded its maximum.
C5_DepthExceededNeverRunsHandler ==
    /\ (call # NoCall /\ call.call_depth > call.max_call_depth) =>
          /\ result = DepthExceededFailure
          /\ handler_log = <<>>
          /\ stack = <<>>
    /\ \A i \in 1..Len(stack) : stack[i].call_depth <= stack[i].max_call_depth

\* an invoke of a registered tool with valid arguments, one level too deep
C5_Witness ==
    /\ call.name = "web_search"
    /\ call.arguments = <<>>
    /\ call.call_depth = call.max_call_depth + 1
    /\ result = DepthExceededFailure

\* C6: the handlers nested in one top-level call (made as tool_executor_node
\* makes it, with the default depth arguments) never exceed max_depth + 1,
\* whatever the arguments: a handler at nesting level > max_depth never starts.
C6_NestingHasDepthCeiling ==
    (call # NoCall /\ call.call_depth = default_call_depth
                   /\ call.max_call_depth = default_max_call_depth) =>
        /\ Len(stack) <= call.max_call_depth + 1
        /\ Len(handler_log) <= call.max_call_depth + 1

\* the failure that names the tool nobody registered
IsUnknownFailure(r, name) ==
    /\ r.success = FALSE
    /\ r.data = None
    /\ r.error = "Unknown tool: " \o name

\* C11: an invoke of a name that is absent from the registry starts no handler
\* and fails: with the unknown-tool error naming it when call_depth <=
\* max_depth, with the depth-exceeded error when call_depth > max_depth; the
\* same holds for an absent name that run_tool asks for.
C11_UnknownNameFails ==
    /\ (call # NoCall /\ ~DictHas(tool_registry.tools, call.name)) =>
          /\ handler_log = <<>>
          /\ stack = <<>>
          /\ returned = <<[name |-> call.name, result |-> result]>>
          /\ IF call.call_depth <= call.max_call_depth
             THEN IsUnknownFailure(result, call.name)
             ELSE result = DepthExceededFailure
    /\ \A i \in 1..Len(handler_log) : DictHas(tool_registry.tools, handler_log[i])
    /\ \A i \in 1..Len(returned) :
          (~DictHas(tool_registry.tools, returned[i].name)
              /\ DictHas(tool_registry.tools, call.name))
            => IsUnknownFailure(returned[i].result, returned[i].name)

\* an absent name asked for at the deepest level still allowed
C11_Witness ==
    /\ call.name = "nope"
    /\ call.call_depth = call.max_call_depth
    /\ IsUnknownFailure(result, "nope")
    /\ handler_log = <<>>

\* C11 as stated: an invoke of an absent name returns the unknown-tool failure
\* for every call_depth and max_depth, and starts no handler.
C11_UnknownNameFailsAtEveryDepth ==
    (call # NoCall /\ ~DictHas(tool_registry.tools, call.name)) =>
        /\ IsUnknownFailure(result, call.name)
        /\ handler_log = <<>>

\* execute_tool returned before it took its start time
EarlyReturn(r) == r.result.execution_time_ms = "0.0"

\* the returned execute_tool calls, among those at the indices in S, of the
\* tool name with the outcome success
ReturnedWith(S, name, success) ==
    Cardinality({i \in S : returned[i].name = name /\ returned[i].result.success = success})

StatusLabel(success) == IF success THEN "success" ELSE "failure"

\* C12: every invoke that got as far as calling its handler (handler success,
\* handler-reported failure, handler exception, bad arguments, timeout)
\* returns a measured duration and has reported its own success or failure
\* exactly once to the metrics; an invoke that fails on the depth check or on
\* the unknown name returns the duration 0.0 and reports nothing.
C12_HandlerPathsReportOnce ==
    /\ \A n \in CallNames, ok \in BOOLEAN :
          CopiesIn(<<n, StatusLabel(ok)>>, metrics) =
              ReturnedWith({i \in 1..Len(returned) : ~EarlyReturn(returned[i])}, n, ok)
    /\ BagCardinality(metrics) =
          Cardinality({i \in 1..Len(returned) : ~EarlyReturn(returned[i])})
    /\ \A i \in 1..Len(returned) :
          /\ returned[i].result.execution_time_ms \in {"0.0", "elapsed", "handler"}
          /\ EarlyReturn(returned[i]) <=>
                returned[i].result \in {DepthExceededFailure,
                                        UnknownToolFailure(returned[i].name)}

\* run_tool was asked for an unregistered name: the nested invoke returned
\* early and unreported, the outer one reported its failure
C12_Witness ==
    /\ call.name = "run_tool"
    /\ result # NoResult
    /\ result.success = FALSE
    /\ Len(returned) = 2
    /\ EarlyReturn(returned[1])
    /\ metrics = SetToBag({<<"run_tool", "failure">>})

\* C12 as stated: every invoke that returned, on whatever path, has reported
\* its success or failure exactly once.
C12_EveryPathReportsOnce ==
    \A n \in CallNames, ok \in BOOLEAN :
        CopiesIn(<<n, StatusLabel(ok)>>, metrics) = ReturnedWith(1..Len(returned), n, ok)

\* C13: every result that execute_tool returned with success = false has no
\* payload and a non-empty error text, whatever the handler did.
C13_FailureHasErrorText ==
    \A i \in 1..Len(returned) :
        ~returned[i].result.success =>
            /\ returned[i].result.data = None
            /\ returned[i].result.error \notin {None, ""}

----------------------------------------------------------------------------
(* claims about execute_tool when monitoring may be down, checked under
   SpecReport *)

\* C33: whether the report to the metrics raises or not, execute_tool
\* returns the same result: the handler's result (with the measured duration
\* if it set none) when the handler returned, the timeout failure when the
\* wait expired, the failure carrying the exception's text when the handler
\* raised; a report that raised leaves the counter as it was.
C33_ReportFailureKeepsResult ==
    [][/\ \A o \in LeafOutcomes : HandlerComplete(o) =>
              /\ returned'[Len(returned')].result =
                    IF o.kind = "returned"
                    THEN [success |-> o.result.success, data |-> o.result.data,
                          error |-> o.result.error,
                          execution_time_ms |->
                              IF o.result.execution_time_ms = "0.0" THEN "elapsed"
                              ELSE o.result.execution_time_ms]
                    ELSE [success |-> FALSE, data |-> None, error |-> o.msg,
                          execution_time_ms |-> "elapsed"]
              /\ monitoring = "down" => metrics' = metrics
       /\ \A i \in 1..Len(stack) : Timeout(i) =>
              /\ returned'[Len(returned')].result =
                    [success |-> FALSE, data |-> None,
                     error |-> "Tool timed out after 30.0s",
                     execution_time_ms |-> "elapsed"]
              /\ monitoring = "down" => metrics' = metrics
      ]_vars

\* with monitoring down a nested call succeeded and the call around it timed out
C33_Witness ==
    /\ monitoring = "down"
    /\ call # NoCall
    /\ stack = <<>>
    /\ Len(returned) = 2
    /\ returned[1].result.success /\ returned[1].result.data = "payload"
    /\ result.error = "Tool timed out after 30.0s"
    /\ metrics = EmptyBag

----------------------------------------------------------------------------
(* claims about execute_tool while the registry changes, checked under
   SpecMutate *)

\* my_tool is removed or registered anew by this step
MutatesMyTool ==
    \/ Unregister("my_tool")
    \/ \E in \in MutateInputs : RegisterDynamic("my_tool", in)

\* the call in flight can go on: its handler can end, run_tool can make or
\* end its nested call
CallGoesOn ==
    \/ \E o \in LeafOutcomes : HandlerComplete(o)
    \/ RunToolDispatch
    \/ RunToolReturn

\* whatever the registry holds, a call in flight is not held up
NotBlocked == stack # <<>> => ENABLED CallGoesOn

\* C31: an unregister or a new registration of a name leaves every call in
\* flight as it is, still waiting for the handler it started with; the call
\* is not blocked (whatever the registry holds by then, it can go on) and
\* returns what that handler produced; an execute_tool that starts when the
\* name is no longer registered returns the unknown-tool failure.
C31_MutationSparesCallsInFlight ==
    /\ [][MutatesMyTool =>
             /\ stack' = stack
             /\ result' = result
             /\ returned' = returned
             /\ \A i \in 1..Len(stack) :
                    HandlerOf(tool_registry', stack'[i]) = stack[i].handler
         ]_vars
    /\ [][\A o \in LeafOutcomes : HandlerComplete(o) =>
             returned'[Len(returned')].result =
                 IF o.kind = "returned"
                 THEN [o.result EXCEPT !.execution_time_ms =
                          IF @ = "0.0" THEN "elapsed" ELSE @]
                 ELSE [success |-> FALSE, data |-> None, error |-> o.msg,
                       execution_time_ms |-> "elapsed"]
         ]_vars
    /\ [][\A c \in Chains :
             (/\ call = NoCall
              /\ ~DictHas(tool_registry.tools, Head(c))
              /\ Invoke(c, default_call_depth, default_max_call_depth)) =>
                /\ stack' = <<>>
                /\ handler_log' = <<>>
                /\ result' = [success |-> FALSE, data |-> None,
                              error |-> "Unknown tool: " \o Head(c),
                              execution_time_ms |-> "0.0"]
         ]_vars
    /\ [][(/\ RunToolDispatch
           /\ ~DictHas(tool_registry.tools, Head(stack[Len(stack)].arguments))) =>
             /\ handler_log' = handler_log
             /\ returned'[Len(returned')].result =
                    [success |-> FALSE, data |-> None,
                     error |-> "Unknown tool: " \o Head(stack[Len(stack)].arguments),
                     execution_time_ms |-> "0.0"]
         ]_vars
    /\ NotBlocked
    /\ [][NotBlocked']_vars

\* my_tool was unregistered while run_tool was waiting for its handler
C31_Witness ==
    /\ Len(stack) = 2
    /\ stack[2].name = "my_tool"
    /\ stack[2].state = "started"
    /\ last = [op |-> "unregister", name |-> "my_tool", ret |-> TRUE]
    /\ ~DictHas(tool_registry.tools, "my_tool")

----------------------------------------------------------------------------
(* claims about one run of the graph, checked under SpecRun / SpecRunFair *)

Count(seq, x) == Cardinality({i \in 1..Len(seq) : seq[i] = x})

\* the step-limit branch of tool_executor_node has run in this run
LimitHit ==
    /\ state.iteration_count >= state.max_iterations
    /\ state.intent = "synthesize"

\* C1: in every reachable state of a run, whatever the model returns at each
\* call, iteration_count <= max_iterations.
C1_LoopCountWithinLimit == state.iteration_count <= state.max_iterations

\* a run that used every allowed pass and ended
C1_Witness ==
    /\ pc = "END"
    /\ state.iteration_count = state.max_iterations
    /\ Len(state.tools_invoked) >= state.max_iterations

\* C2: tool_executor entered with iteration_count >= max_iterations sets the
\* intent to synthesize, calls neither the model nor a tool, and leaves the
\* messages, tools_invoked and iteration_count as they were.
C2_LimitPassOnlyRoutes ==
    [][(pc = "tool_executor" /\ state.iteration_count >= state.max_iterations) =>
          /\ state'.intent = "synthesize"
          /\ pc' = "synthesizer"
          /\ llm_log' = llm_log
          /\ results' = <<>> /\ response' = NoResponse
          /\ state'.messages = state.messages
          /\ state'.tools_invoked = state.tools_invoked
          /\ state'.iteration_count = state.iteration_count
      ]_vars

\* the pass after the last allowed one has just run
C2_Witness ==
    /\ pc = "synthesizer"
    /\ LimitHit
    /\ Count(stages, "tool_executor") = state.max_iterations + 1
    /\ Count(llm_log, "tool_executor") = state.max_iterations

\* C3: every run whose model calls and tool calls return ends: tool_executor
\* runs at most max_iterations + 1 times and calls the model at most
\* max_iterations times, then the synthesizer runs and the run is at END
\* (a run whose model call raises ends with that error instead).
C3_RunTerminates ==
    /\ [](Count(stages, "tool_executor") <= state.max_iterations + 1)
    /\ [](Count(llm_log, "tool_executor") <= state.max_iterations)
    /\ [](pc = "END" => /\ stages[Len(stages)] = "synthesizer"
                        /\ Count(stages, "synthesizer") = 1)
    /\ <>(pc = "END" \/ pc = "error")

\* a run that went round the loop as often as it can and reached END
C3_Witness ==
    /\ pc = "END"
    /\ Count(stages, "tool_executor") = state.max_iterations + 1
    /\ Count(llm_log, "tool_executor") = state.max_iterations

\* C4: a run that hits the step limit ends with the fallback answer and never
\* with an error, whatever the model does afterwards.
C4_LimitRunEndsWithFallback ==
    LimitHit =>
        /\ pc # "error"
        /\ pc = "END" => state.final_response = StepLimitText

\* the step that ends a pass: asyncio.gather has returned and the node returns
PassEnds == pc = "gather" /\ pc' # "gather"

\* C14: when calls of a tool_executor pass fail (unknown tool, arguments that
\* do not bind, a failure the handler reports, timeout), each failure is
\* appended to the messages as a tool message carrying its error text, the
\* pass ends as any other with the tool_executor node next, only a raising
\* model call ends a run in error, and what runs next calls the model.
C14_ToolFailuresDoNotAbort ==
    [][/\ PassEnds =>
            LET n == Len(response.tool_calls)
                old == Len(state.messages)
            IN  /\ pc' = "tool_executor"
                /\ state'.iteration_count = state.iteration_count + 1
                /\ Len(state'.messages) = old + 1 + n
                /\ \A i \in 1..n : ~results[i].result.success =>
                      /\ state'.messages[old + 1 + i].role = "tool"
                      /\ state'.messages[old + 1 + i].content =
                            IF results[i].result.error \in {None, ""}
                            THEN "Tool failed."
                            ELSE "Error: " \o results[i].result.error
       /\ pc' = "error" => llm_log' = Append(llm_log, pc)
       /\ (pc = "tool_executor" /\ ~LimitReached(state))
              => llm_log' = Append(llm_log, "tool_executor")
       /\ pc = "synthesizer" => llm_log' = Append(llm_log, "synthesizer")
      ]_vars

\* a run that reached END after passes in which tool calls failed in each of
\* the four ways
C14_Witness ==
    /\ pc = "END"
    /\ \A text \in {"Error: Unknown tool: nope", "Error: TypeError",
                    "Error: Tool timed out after 30.0s", "Error: boom"} :
          \E i \in 1..Len(state.messages) :
              /\ state.messages[i].role = "tool"
              /\ state.messages[i].content = text

\* C16: a model call that raises in supervisor, router, synthesizer or in the
\* dispatch step of tool_executor ends the run with that error: the state is
\* left as it was, no tool call of that pass is started, and nothing runs
\* after it, so the run never reaches END.
C16_ModelFailureEndsRun ==
    [][/\ LLMFailure =>
            /\ pc' = "error"
            /\ state' = state
            /\ results = <<>> /\ results' = <<>>
            /\ metrics' = metrics
       /\ pc # "error"
       /\ pc' = "END" => pc = "synthesizer"
      ]_vars

\* the model call of a later pass raised, after tools had run
C16_Witness ==
    /\ pc = "error"
    /\ stages[Len(stages)] = "tool_executor"
    /\ state.iteration_count >= 1
    /\ Len(state.tools_invoked) >= 2
    /\ state.final_response = ""

\* the passes of the run that made at least one tool call: each left one
\* assistant message with tool calls
PassesWithCalls ==
    Cardinality({i \in 1..Len(state.messages) :
                    "tool_calls" \in DOMAIN state.messages[i]})

\* C17: a tool_executor pass in which the model asks for N >= 1 tool calls
\* adds exactly one to iteration_count whatever N is; a pass with no tool
\* call, a pass at the step limit and every other step leave it unchanged;
\* so iteration_count is always the number of passes that made a call.
C17_OnePerPassWithCalls ==
    /\ [][state'.iteration_count =
              IF PassEnds THEN state.iteration_count + 1 ELSE state.iteration_count]_vars
    /\ [](state.iteration_count = PassesWithCalls)

\* a finished run with two passes of two calls each and a third pass without
C17_Witness ==
    /\ pc = "END"
    /\ state.iteration_count = 2
    /\ Len(state.tools_invoked) = 4
    /\ Count(stages, "tool_executor") = 3

\* the statement of C21 as first written: final_response is empty in every
\* state of a run in which the synthesizer has not run yet.
C21_AnswerEmptyBeforeSynthesizer ==
    Count(stages, "synthesizer") = 0 => state.final_response = ""

\* C21: before the synthesizer has run, final_response is empty unless the
\* step-limit branch of tool_executor has run, which writes the step-limit
\* text; the synthesizer runs at most once, and no step after it changes
\* final_response.
C21_AnswerBeforeSynthesizer ==
    /\ [](Count(stages, "synthesizer") = 0 =>
            state.final_response = IF LimitHit THEN StepLimitText ELSE "")
    /\ [](Count(stages, "synthesizer") <= 1)
    /\ [][Count(stages, "synthesizer") > 0 =>
            state'.final_response = state.final_response]_vars

C21_Witness ==
    /\ pc = "synthesizer"
    /\ Count(stages, "tool_executor") = DefaultMaxIterations + 1
    /\ state.final_response = StepLimitText

IsPrefix(a, b) == Len(a) <= Len(b) /\ SubSeq(b, 1, Len(a)) = a

\* C22: messages and tools_invoked only grow at their end: on every step of
\* a run the list before the step is a prefix of the list after it.
C22_HistoryAppendOnly ==
    [][/\ IsPrefix(state.messages, state'.messages)
       /\ IsPrefix(state.tools_invoked, state'.tools_invoked)]_vars

\* a finished run that started from a loaded conversation and added tool
\* passes to it
C22_Witness ==
    /\ pc = "END"
    /\ IsPrefix(PriorHistory, state.messages)
    /\ Len(state.messages) >= Len(PriorHistory) + 6
    /\ Len(state.tools_invoked) >= 4

\* C23: the router leaves intent in {direct, tool_use, clarification}: a reply
\* that, trimmed and lower-cased, is none of the three (the empty reply too)
\* becomes tool_use; tool_executor runs next exactly when intent is tool_use,
\* the synthesizer otherwise.
C23_RouterCoercesToToolUse ==
    [][\A r \in RouterReplies : Router(r) =>
          /\ state'.intent =
                CASE r.content \in {"direct", " Direct "} -> "direct"
                  [] r.content = "clarification" -> "clarification"
                  [] OTHER -> "tool_use"
          /\ state'.intent \in {"direct", "tool_use", "clarification"}
          /\ pc' = IF state'.intent = "tool_use" THEN "tool_executor" ELSE "synthesizer"
      ]_vars

\* the router has just run and sent the run to the tools
C23_Witness ==
    /\ stages = <<"supervisor", "router">>
    /\ llm_log = stages
    /\ state.intent = "tool_use"
    /\ pc = "tool_executor"

\* the router chose direct or clarification in this run
DirectRun == state.intent \in {"direct", "clarification"}

\* C24: in a run whose router chose direct or clarification tool_executor
\* never runs, no tool is called, tools_invoked stays empty and
\* iteration_count 0; the synthesizer runs once and the run ends with its
\* answer (or with the error of its raising model call).
C24_DirectRunSkipsTools ==
    /\ [](DirectRun =>
            /\ Count(stages, "tool_executor") = 0
            /\ results = <<>>
            /\ metrics = EmptyBag
            /\ state.tools_invoked = <<>>
            /\ state.iteration_count = 0
            /\ Count(stages, "synthesizer") <= 1
            /\ pc = "END" => /\ stages[Len(stages)] = "synthesizer"
                             /\ Count(stages, "synthesizer") = 1
                             /\ state.final_response \in {"The answer.", ""})
    /\ (DirectRun ~> (pc = "END" \/ pc = "error"))

\* a run that asked for clarification and ended with the synthesizer's answer
C24_Witness ==
    /\ pc = "END"
    /\ state.intent = "clarification"
    /\ stages = <<"supervisor", "router", "synthesizer">>
    /\ state.final_response = "The answer."

\* C26: the supervisor sets team to research, code or general: a reply that,
\* trimmed and lower-cased, is none of the three (the empty reply too) gives
\* general; the supervisor runs at most once and no other node touches team.
C26_TeamSetOnceBySupervisor ==
    /\ [][/\ \A r \in SupervisorReplies : Supervisor(r) =>
                state'.team = CASE r.content = "research" -> "research"
                                [] r.content \in {"code", "CODE"} -> "code"
                                [] OTHER -> "general"
          /\ pc # "supervisor" =>
                /\ ("team" \in DOMAIN state') = ("team" \in DOMAIN state)
                /\ "team" \in DOMAIN state => state'.team = state.team
         ]_vars
    /\ [](Count(stages, "supervisor") <= 1)
    /\ []("team" \in DOMAIN state => state.team \in {"research", "code", "general"})

\* a finished run with tool passes whose team is still the one chosen first
C26_Witness ==
    /\ pc = "END"
    /\ "team" \in DOMAIN state
    /\ state.team = "code"
    /\ state.iteration_count >= 2
    /\ Count(stages, "supervisor") = 1

\* C27: the supervisor and the synthesizer leave intent as it was; only the
\* router and tool_executor write it.
C27_IntentOnlyByRouterAndTools ==
    [][(pc = "supervisor" \/ pc = "synthesizer") => state'.intent = state.intent
      ]_vars

\* a finished run: the intent is the one tool_executor set before the
\* synthesizer ran
C27_Witness ==
    /\ pc = "END"
    /\ stages[1] = "supervisor"
    /\ state.intent = "synthesize"
    /\ state.final_response = "The answer."

\* C34: a tool_executor pass in which the model asks for no tool call sets
\* intent to synthesize and leaves messages, tools_invoked, iteration_count
\* and final_response as they were: the text of that reply is not appended.
C34_NoCallPassOnlySetsIntent ==
    [][\A r \in ToolReplies :
          (r.tool_calls = <<>> /\ ToolExecutorDispatch(r)) =>
             /\ state'.intent = "synthesize"
             /\ state'.messages = state.messages
             /\ state'.tools_invoked = state.tools_invoked
             /\ state'.iteration_count = state.iteration_count
             /\ state'.final_response = state.final_response
             /\ \A i \in 1..Len(state'.messages) :
                    state'.messages[i].content # r.content
             /\ pc' = "synthesizer"
      ]_vars

\* a pass with two tool calls was followed by a pass without any
C34_Witness ==
    /\ pc = "synthesizer"
    /\ state.intent = "synthesize"
    /\ Count(stages, "tool_executor") = 2
    /\ Count(llm_log, "tool_executor") = 2
    /\ state.iteration_count = 1
    /\ Len(state.tools_invoked) = 2
    /\ state.final_response = ""

\* the tool entries of the history, in order
ToolEntries(messages) == SelectSeq(messages, LAMBDA m : m.role = "tool")

\* C37: the tool entry appended for a call carries failure text ("Tool
\* failed." or "Error: " and the error) exactly when the result of the call
\* has success = false; a successful result, with or without data, is never
\* shown as a failure.
C37_FailureTextIffFailed ==
    LET entries == ToolEntries(state.messages)
        invoked == state.tools_invoked
    IN  /\ Len(entries) = Len(invoked)
        /\ \A i \in 1..Len(entries) :
              LET text == entries[i].content
                  failure_text == \/ text = "Tool failed."
                                  \/ /\ invoked[i].error # None
                                     /\ text = "Error: " \o invoked[i].error
              IN failure_text <=> ~invoked[i].success

\* the place of a node in the order of the graph
Rank(node) ==
    CASE node = "supervisor" -> 1
      [] node = "router" -> 2
      [] node = "tool_executor" -> 3
      [] node = "synthesizer" -> 4

\* C32: the nodes of a run execute one at a time in the order supervisor (at
\* most once, only first), router (once), tool_executor (any number of times
\* in a row), synthesizer (once, last); a run that has ended has run router
\* and synthesizer exactly once; the events streamed are one per node that
\* returned, in the order the nodes ran, none skipped.
C32_StagesAndStreamInOrder ==
    /\ \A i, j \in 1..Len(stages) : i < j => Rank(stages[i]) <= Rank(stages[j])
    /\ \A i \in 1..Len(stages) : stages[i] = "supervisor" => i = 1
    /\ Count(stages, "supervisor") <= 1
    /\ Count(stages, "router") <= 1
    /\ Count(stages, "synthesizer") <= 1
    /\ pc = "END" =>
          /\ Count(stages, "router") = 1
          /\ Count(stages, "synthesizer") = 1
          /\ stages[Len(stages)] = "synthesizer"
          /\ Len(streamed) = Len(stages)
    /\ Len(streamed) <= Len(stages)
    /\ Len(stages) <= Len(streamed) + 1
    /\ Len(stages) = Len(streamed) + 1 => pc \in {"gather", "error"}
    /\ \A i \in 1..Len(streamed) : streamed[i].node = stages[i]

\* a run with the supervisor and three passes of tool_executor has ended
C32_Witness ==
    /\ pc = "END"
    /\ stages = <<"supervisor", "router", "tool_executor", "tool_executor",
                  "tool_executor", "synthesizer">>
    /\ Len(streamed) = 6
    /\ streamed[6] = [node |-> "synthesizer",
                      update |-> [final_response |-> "The answer."]]

\* C36: in a run whose team has a non-empty list in TEAM_TOOLS, every tool
\* whose handler ran for a tool call of the run has its name on that list.
C36_InvokedToolsAreOnTeamList ==
    ("team" \in DOMAIN state /\ TEAM_TOOLS[state.team] # {}) =>
        \A i \in 1..Len(state.tools_invoked) :
            state.tools_invoked[i].success =>
                state.tools_invoked[i].tool_name \in TEAM_TOOLS[state.team]

----------------------------------------------------------------------------
(* claims about one tool_executor pass, checked under SpecPass *)

\* the tools_invoked entry tool_executor_node makes of one result
InvokedEntry(name, r) ==
    [success |-> r.success, data |-> r.data, error |-> r.error,
     execution_time_ms |-> r.execution_time_ms, tool_name |-> name]

\* the calls of the pass did not finish in the order they were asked for
OutOfOrder(rs) == \E i, j \in 1..Len(rs) : i < j /\ rs[i].seq > rs[j].seq

\* C15: a tool call whose handler has not completed within the timeout
\* returns the timed-out failure, whatever the handler does afterwards.
C15_TimeoutResultIsFinal ==
    \A i \in 1..Len(results) :
        results[i].late => results[i].result = ExecuteToolTimedOut

\* C18: a pass with N tool calls appends exactly N entries to tools_invoked,
\* after all earlier entries, the i-th new entry holding the name of the i-th
\* call and the result of that call, in whatever order the calls finished.
C18_InvokedInRequestOrder ==
    [][PassEnds =>
          LET calls == response.tool_calls
              old == state.tools_invoked
              new == state'.tools_invoked
          IN  /\ Len(new) = Len(old) + Len(calls)
              /\ SubSeq(new, 1, Len(old)) = old
              /\ \A i \in 1..Len(calls) :
                    new[Len(old) + i] = InvokedEntry(calls[i].name, results[i].result)
      ]_vars

\* three calls have all returned, not in the order they were asked for
C18_Witness ==
    /\ pc = "gather"
    /\ Len(results) = 3
    /\ \A i \in 1..Len(results) : results[i].status = "done"
    /\ OutOfOrder(results)
    /\ results[1].result # results[2].result

\* C19: a pass with N >= 1 tool calls appends to the messages exactly one
\* assistant message holding the N calls and then exactly N tool messages,
\* the i-th with the id of the i-th call and the text of its result, in
\* whatever order the calls finished.
C19_MessagesInRequestOrder ==
    [][PassEnds =>
          LET calls == response.tool_calls
              n == Len(calls)
              old == state.messages
              new == state'.messages
          IN  /\ n >= 1
              /\ Len(new) = Len(old) + 1 + n
              /\ SubSeq(new, 1, Len(old)) = old
              /\ new[Len(old) + 1].role = "assistant"
              /\ Len(new[Len(old) + 1].tool_calls) = n
              /\ \A i \in 1..n :
                    /\ new[Len(old) + 1].tool_calls[i].id = calls[i].id
                    /\ new[Len(old) + 1].tool_calls[i].function.name = calls[i].name
                    /\ new[Len(old) + 1 + i] =
                          [role |-> "tool", tool_call_id |-> calls[i].id,
                           content |-> ToolMessageContent(results[i].result)]
      ]_vars

\* the pass has ended: the last four messages are the assistant message with
\* three calls and their three tool messages, the second one a timeout
C19_Witness ==
    LET m == state.messages
        L == Len(state.messages)
    IN  /\ pc = "tool_executor"
        /\ state.iteration_count = DefaultMaxIterations
        /\ "tool_calls" \in DOMAIN m[L - 3]
        /\ Len(m[L - 3].tool_calls) = 3
        /\ m[L - 2].tool_call_id = CallId(1)
        /\ m[L - 1].tool_call_id = CallId(2)
        /\ m[L].tool_call_id = CallId(3)
        /\ m[L - 1].content = "Error: Tool timed out after 30.0s"
        /\ m[L].content = "search results"

\* C20: all tool calls of a pass are in flight together: no call is still
\* waiting for its start when the handler of another call of the pass has
\* already run to its end.
C20_CallsRunConcurrently ==
    \A i, j \in 1..Len(results) :
        (results[i].status = "done" /\ results[i].handler)
            => results[j].status # "pending"

----------------------------------------------------------------------------
(* claims about several runs in one process, checked under SpecDeps *)

\* C35: every model call a node of a run makes goes to the client the run
\* was created with.
C35_ModelCallsUseOwnClient ==
    \A e \in generate_log : e.llm = runs[e.run].llm

----------------------------------------------------------------------------
(* claims about the RateLimiter, checked under SpecRate *)

\* the calls of allow(key) so far that returned True with a timestamp t,
\* from <= t < to
AllowedBetween(key, from, to) ==
    {i \in 1..Len(decisions) :
        /\ decisions[i].op = "allow"
        /\ decisions[i].key = key
        /\ decisions[i].ret
        /\ from <= decisions[i].now
        /\ decisions[i].now < to}

\* no window holds more than max_requests allowed calls of a key, and
\* remaining has returned nothing below 0
WithinLimit ==
    /\ \A key \in Keys, s \in 0..MaxClock :
          Cardinality(AllowedBetween(key, s, s + window_seconds)) <= max_requests
    /\ \A i \in 1..Len(decisions) :
          decisions[i].op = "remaining" =>
              decisions[i].ret >= 0 /\ decisions[i].ret <= max_requests

\* C39: for every key and every window of window_seconds (from s up to, not
\* including, s + window_seconds) at most max_requests calls of allow(key)
\* returned True with a timestamp in it, however the threads interleave;
\* what allow and remaining return for a key depends on the allowed calls
\* of that key alone, and no step of a call changes the list of another
\* key; remaining returns max_requests less the allowed calls still in the
\* window, never less than 0, and adds nothing to the list.
C39_RateLimiterHoldsTheLimit ==
    /\ WithinLimit
    /\ [][WithinLimit']_vars
    /\ [][\A t \in 1..NumThreads : AllowReturn(t) =>
             LET key == threads[t].key
                 live == AllowedBetween(key, threads[t].now - window_seconds + 1,
                                        threads[t].now + 1)
             IN  /\ decisions'[Len(decisions')].ret = (Cardinality(live) < max_requests)
                 /\ \A k \in Keys \ {key} : counts'[k] = counts[k]
         ]_vars
    /\ [][\A t \in 1..NumThreads : RemainingReturn(t) =>
             LET key == threads[t].key
                 live == AllowedBetween(key, threads[t].now - window_seconds + 1,
                                        threads[t].now + 1)
             IN  /\ decisions'[Len(decisions')].ret = max_requests - Cardinality(live)
                 /\ counts' = counts
         ]_vars
    /\ [][\A t \in 1..NumThreads : PruneAndTest(t) =>
             LET key == threads[t].key
                 live == AllowedBetween(key, clock - window_seconds + 1, clock + 1)
             IN  /\ Len(counts'[key]) = Cardinality(live)
                 /\ \A k \in Keys \ {key} : counts'[k] = counts[k]
         ]_vars

\* allow("chat_1") was refused at the limit and, once the window had moved
\* on, allowed again
C39_Witness ==
    /\ Len(decisions) = 4
    /\ decisions[3] \in [op : {"allow"}, key : {"chat_1"}, now : 0..MaxClock, ret : {FALSE}]
    /\ decisions[4] \in [op : {"allow"}, key : {"chat_1"}, now : 0..MaxClock, ret : {TRUE}]
    /\ Len(counts["chat_1"]) = max_requests

----------------------------------------------------------------------------
(* claims about the start of a turn, checked under SpecTurn *)

\* the positions of the entries of a history that are not tool entries
NonToolIndices(messages) ==
    SelectSeq([i \in 1..Len(messages) |-> i],
              LAMBDA i : messages[i].role # "tool")

\* the text of history[i+1..] up to the first entry that is not a tool entry,
\* one line per non-empty tool content
RECURSIVE ResultLines(_, _)
ResultLines(history, i) ==
    IF i > Len(history) \/ history[i].role # "tool" THEN ""
    ELSE LET rest == ResultLines(history, i + 1) IN
         IF history[i].content = "" THEN rest
         ELSE IF rest = "" THEN history[i].content
         ELSE history[i].content \o "\n" \o rest

\* C28: the tool-free history holds no tool entry and no entry with a
\* tool_calls payload; it has one entry per entry of the history that is not
\* a tool entry, in order: an assistant entry with tool calls has become one
\* assistant entry whose text is its own text followed by the texts of the
\* tool entries that directly follow it, every other entry is kept with its
\* role and content, and every other tool entry is gone.
C28_SafeHistoryHasNoToolEntries ==
    pc = "safe" =>
        LET history == state.messages
            kept == NonToolIndices(history)
        IN  /\ \A k \in 1..Len(safe) :
                  /\ safe[k].role # "tool"
                  /\ DOMAIN safe[k] = {"role", "content"}
            /\ Len(safe) = Len(kept)
            /\ \A k \in 1..Len(kept) :
                  LET m == history[kept[k]]
                      lines == ResultLines(history, kept[k] + 1)
                      own == IF m.content = " Checking. " THEN "Checking." ELSE m.content
                  IN IF m.role = "assistant" /\ "tool_calls" \in DOMAIN m
                        /\ m.tool_calls # <<>>
                     THEN /\ safe[k].role = "assistant"
                          /\ safe[k].content =
                               IF lines = "" THEN
                                   IF own = "" THEN "(Used tools in this turn.)" ELSE own
                               ELSE IF own = "" THEN "[Tool results]:\n" \o lines
                               ELSE own \o "\n\n[Tool results]:\n" \o lines
                     ELSE safe[k] = [role |-> m.role, content |-> m.content]

\* a stray tool entry, then an assistant entry with tool calls and its result
C28_Witness ==
    /\ pc = "safe"
    /\ Len(state.messages) = 4
    /\ state.messages[1].role = "tool"
    /\ HasToolCalls(state.messages[2])
    /\ state.messages[3] = [role |-> "tool", tool_call_id |-> "call_1",
                            content |-> "It is sunny."]
    /\ state.messages[4].role = "user"
    /\ Len(safe) = 2
    /\ safe[1].content \in {"Checking.\n\n[Tool results]:\nIt is sunny.",
                            "[Tool results]:\nIt is sunny."}

\* C29: putting a tool-free history through the transform again gives the
\* same history.
C29_SafeHistoryIsIdempotent ==
    [][BuildSafeAgain => safe' = safe]_vars

\* the second application ran on a history the first one had changed
C29_Witness ==
    /\ pc = "safe_again"
    /\ Len(state.messages) = MaxHistory
    /\ Len(safe) = 2
    /\ \E i \in 1..Len(state.messages) : HasToolCalls(state.messages[i])
    /\ \E i \in 1..Len(state.messages) : state.messages[i].role = "tool"

\* the non-empty contents of the tool entries from history[i] up to the first
\* entry that is not a tool entry
RECURSIVE ResultsFrom(_, _)
ResultsFrom(history, i) ==
    IF i > Len(history) \/ history[i].role # "tool" THEN <<>>
    ELSE IF history[i].content = "" THEN ResultsFrom(history, i + 1)
    ELSE <<history[i].content>> \o ResultsFrom(history, i + 1)

IsRequest(m) == m.role = "assistant" /\ "tool_calls" \in DOMAIN m /\ m.tool_calls # <<>>

\* C38: the tool-free history has one entry per entry of the history that is
\* not a tool entry, with the same role and in the same order; an entry
\* without tool calls keeps its content, and the entry for an assistant entry
\* with tool calls ends with the non-empty contents of all the tool entries
\* directly after it, in their order, one per line; the placeholder text
\* stands exactly where that assistant entry has no text and no non-empty
\* result.
C38_SafeHistoryKeepsEntriesAndResults ==
    pc = "safe" =>
        LET history == state.messages
            kept == NonToolIndices(history)
        IN  /\ Len(safe) = Len(kept)
            /\ \A k \in 1..Len(kept) :
                  LET m == history[kept[k]]
                      found == ResultsFrom(history, kept[k] + 1)
                      placeholder == safe[k].content = "(Used tools in this turn.)"
                  IN /\ safe[k].role = m.role
                     /\ ~IsRequest(m) => safe[k].content = m.content
                     /\ IsRequest(m) =>
                          /\ placeholder <=> (m.content = "" /\ found = <<>>)
                          /\ found # <<>> =>
                                safe[k].content \in
                                   {head \o Join(found, "\n") :
                                       head \in {"[Tool results]:\n",
                                                 "Checking.\n\n[Tool results]:\n"}}
                          /\ Len(found) = 2 =>
                                safe[k].content \in
                                   {head \o found[1] \o "\n" \o found[2] :
                                       head \in {"[Tool results]:\n",
                                                 "Checking.\n\n[Tool results]:\n"}}

\* an assistant entry with tool calls followed by two different results
C38_Witness ==
    /\ pc = "safe"
    /\ Len(state.messages) = 4
    /\ IsRequest(state.messages[2])
    /\ state.messages[3].role = "tool" /\ state.messages[3].content = "12 C"
    /\ state.messages[4].role = "tool" /\ state.messages[4].content = "It is sunny."
    /\ Len(safe) = 2
    /\ safe[2].content \in {"[Tool results]:\n12 C\nIt is sunny.",
                            "Checking.\n\n[Tool results]:\n12 C\nIt is sunny."}

\* the statement of C30 as first written: the initial history is the given
\* history followed by a user message carrying the input, and its last entry
\* is that user message.
C30_InitialHistoryAppendsInput ==
    pc # "idle" =>
        /\ state.messages = messages_arg \o <<UserMessage(state.user_input)>>
        /\ state.messages[Len(state.messages)] = UserMessage(state.user_input)

\* C30: the initial history is the given history as it is when one is given
\* and is not empty, and the single user message carrying the input
\* otherwise; only in the second case is its last entry sure to be that user
\* message.
C30_InitialHistoryIsGivenOrInput ==
    pc # "idle" =>
        /\ state.user_input = UserInput
        /\ messages_arg # <<>> => state.messages = messages_arg
        /\ messages_arg = <<>> => state.messages = <<UserMessage(UserInput)>>

\* a run started on a given history that does not end with the input
C30_Witness ==
    /\ pc = "supervisor"
    /\ Len(messages_arg) = 2
    /\ state.messages = messages_arg
    /\ state.messages[2] = [role |-> "assistant", content |-> "Hi!"]

====
